---- MODULE Spec2Model ----
(***************************************************************************)
(* Client-side synchronisation core of the Aegis dashboard                 *)
(* (frontend/src/App.jsx, frontend/src/api.js and the legacy view).        *)
(*                                                                         *)
(* The React component's state (devices, logs, loading, processingId,      *)
(* selectedDevice) is the program state.  Every async handler is split at  *)
(* its await points: the part that runs up to an await is one action, the  *)
(* continuation that runs when the awaited backend call resolves is the    *)
(* next one.  Timers (setInterval / setTimeout) are actions enabled while  *)
(* the timer is live.  The backend is the environment: its own state is    *)
(* srvDevices, srvLogs and srvScanning.                                    *)
(***************************************************************************)
EXTENDS Integers, Sequences, FiniteSets, Bags, TLC

VARIABLES
    devices,         \* App.jsx:30  useState([])   Inventory Store
    logs,            \* App.jsx:31  useState([])   Log Store
    loading,         \* App.jsx:32  useState(false)
    processingId,    \* App.jsx:33  useState(null)
    selectedDevice,  \* App.jsx:34  useState(null)
    scans,           \* one record per handleScan call (its closure: timers, polls)
    loads,           \* bag of loadData() calls whose Promise.all has not resolved yet
    toggles,         \* one record per handleToggleBlock call that sent a request
    srvDevices,      \* backend: device table
    srvLogs,         \* backend: audit log
    srvScanning,     \* backend: is_scanning
    outcomeObs,      \* history (kept when switched on): what the UI showed
                     \* when a scan ended, per outcome
    nicknameDraft,   \* App.jsx:41  useState("")
    renames,         \* one record per nickname Save click that sent a request
    panicProcessing, \* App.jsx:37  useState(false)
    unlockProcessing,\* App.jsx:38  useState(false)
    bulks,           \* one record per handlePanic / handleUnlockPanic call
    autoScanEnabled, \* App.jsx:39  useState(false)
    autoEffects,     \* one record per run of the auto-scan polling effect
    autoPolls,       \* one record per tick of an auto-scan pollInterval
    autoCalls,       \* loadAutoScanStatus / handleToggleAutoScan calls
    mounted,         \* the component has not been discarded
    reports,         \* the CSV files generateQCReport has offered for download
    srvAutoScan,     \* backend: the auto-scan scheduler is enabled
    autoAnswers      \* backend: the answers it has given to auto-scan calls

vars == <<devices, logs, loading, processingId, selectedDevice,
          scans, loads, toggles, srvDevices, srvLogs, srvScanning, outcomeObs,
          nicknameDraft, renames, panicProcessing, unlockProcessing, bulks,
          autoScanEnabled, autoEffects, autoPolls, autoCalls, mounted, reports,
          srvAutoScan, autoAnswers>>

uiVars == <<processingId, selectedDevice, toggles>>

nickVars == <<nicknameDraft, renames>>

bulkVars == <<panicProcessing, unlockProcessing, bulks>>

autoVars == <<autoScanEnabled, autoEffects, autoPolls, autoCalls, mounted>>

reportVars == <<reports>>

srvAutoVars == <<srvAutoScan, autoAnswers>>

\* what neither the scan controller nor the block toggle touches
extVars == <<nickVars, bulkVars, autoVars, reportVars, srvAutoVars>>

-----------------------------------------------------------------------------
(* Bounds of the model *)

\* SpecScan: how often the user starts a scan, and how many status polls of
\* one scan are in flight at once
MaxScans == 3
MaxInflight == 2
\* the same for SpecScanFair, whose liveness check is the costlier one
MaxFairScans == 1
MaxFairInflight == 2
\* the same for SpecScanOutcome, which records what the UI shows
MaxObsScans == 2
MaxObsInflight == 1
\* how many block toggles the user issues
MaxToggles == 3
\* SpecNickname: how many nickname saves the user issues
MaxRenames == 2
\* SpecBulk: how many panic locks and unlocks the user issues in total
MaxBulks == 3
\* SpecAuto: how often the user clicks the Auto-Scan button, and how many
\* ticks the auto-scan poll timers make in total
MaxAutoClicks == 2
MaxAutoPolls == 1
\* SpecPatch: how many block toggles and nickname saves the user issues in
\* total
MaxPatchOps == 2
\* SpecOverlap: how many scans the user starts, how many status polls of one
\* scan are in flight at once, and how many ticks the auto-scan poll makes
MaxOverlapScans == 1
MaxOverlapInflight == 1
MaxOverlapPolls == 1
\* SpecMix: how many scans, Auto-Scan clicks and auto-scan poll ticks there
\* are in total
MaxMixOps == 2
\* SpecRefresh: how often the user starts a scan
MaxRefreshScans == 1
\* SpecReport: how many devices the backend holds and how many reports the
\* user generates
MaxReportDevices == 2
MaxReports == 2
\* SpecDisplayName: how long the nickname, hostname and vendor of the device are
MaxNameLen == 2

-----------------------------------------------------------------------------
(* Values *)

Macs == <<"m1", "m2", "m3">>

\* JavaScript null and undefined, as they occur in processingId and in the
\* mac of selectedDevice.
NoMac == "null"
UndefMac == "undefined"

\* A device as the backend reports it; its nickname is not set.
Device(m, b) == [mac |-> m, isBlocked |-> b, nickname |-> ""]

\* selectedDevice === null
NullDevice == Device(NoMac, FALSE)

LogEntry(i) == [id |-> i]

Pending == [done |-> FALSE, val |-> << >>]
\* A fetch that has resolved with v; ok: the backend answered (otherwise v
\* is what api.js returned from its catch).
Answer(ok, v) == [done |-> TRUE, val |-> v, ok |-> ok]

MacsOf(ds) == {ds[i].mac : i \in 1..Len(ds)}

\* A counter that only tells 0, 1 and "more than one" apart.
Bump(n) == IF n < 2 THEN n + 1 ELSE 2

-----------------------------------------------------------------------------
(* api.js: every call catches transport faults and returns a default *)

\* Mutant of fetchDevices: a failed fetch returns what the store holds.
fetchDevicesKeepsLast(ok) == IF ok THEN srvDevices ELSE devices

\* fetchDevices: the backend's table, or [] when the fetch throws
fetchDevices(ok) == IF ok THEN srvDevices ELSE << >>

\* fetchLogs: the backend's log, or [] when the fetch throws
fetchLogs(ok) == IF ok THEN srvLogs ELSE << >>

\* getScanStatus().is_scanning: the backend's flag, or false when the fetch throws
getScanStatus(ok) == IF ok THEN srvScanning ELSE FALSE

\* What the UI renders from and the caller of handleScan can see.
Observable == [seen |-> TRUE, loading |-> loading, devices |-> devices, logs |-> logs]

NotSeen == [seen |-> FALSE, loading |-> FALSE, devices |-> << >>, logs |-> << >>]

-----------------------------------------------------------------------------
(* Initial state: the component has mounted; its first effect has called   *)
(* loadData(), whose two fetches are in flight.                            *)

InitInventory == <<Device(Macs[1], FALSE), Device(Macs[2], FALSE)>>

\* loadData() called by `owner` (0: the mount effect, s: the closure of scan
\* s); `andThen` is what the caller does once loadData has resolved.
LoadCall(owner, andThen) ==
    [owner |-> owner, andThen |-> andThen, dv |-> Pending, lg |-> Pending]

\* The closure of one loadAutoScanStatus ("status") or handleToggleAutoScan
\* ("start", "stop") call; pc "await": its backend call has not resolved,
\* "timer": its 2 s setTimeout is pending, "done": nothing of it is left;
\* ok: a start or stop was answered with success.
AutoCall(kind) == [kind |-> kind, pc |-> "await", ok |-> FALSE]

\* The state after mount, with a backend that holds the inventory inv.
MountedWith(inv) ==
    /\ devices = << >>
    /\ logs = << >>
    /\ loading = FALSE
    /\ processingId = NoMac
    /\ selectedDevice = NullDevice
    /\ scans = << >>
    /\ loads = SetToBag({LoadCall(0, "none")})
    /\ toggles = << >>
    /\ srvDevices = inv
    /\ srvLogs = << >>
    /\ srvScanning = FALSE
    /\ nicknameDraft = ""
    /\ renames = << >>
    /\ panicProcessing = FALSE
    /\ unlockProcessing = FALSE
    /\ bulks = << >>
    /\ autoScanEnabled = FALSE
    /\ autoEffects = << >>
    /\ autoPolls = << >>
    /\ autoCalls = <<AutoCall("status")>>
    /\ mounted = TRUE
    /\ reports = << >>
    /\ srvAutoScan = FALSE
    /\ autoAnswers = {}

Mounted == MountedWith(InitInventory)

History(on) == [on |-> on, completed |-> NotSeen, timeout |-> NotSeen]

Init == Mounted /\ outcomeObs = History(FALSE)

\* The same state, with the history of scan outcomes switched on.
InitObserved == Mounted /\ outcomeObs = History(TRUE)

-----------------------------------------------------------------------------
(* loadData (App.jsx:104-111) *)

\* Mutant of LoadResolve: an empty snapshot does not replace the store.
LoadResolveKeepsOnEmpty(c, dv, lg) ==
    /\ devices' = IF dv = << >> THEN devices ELSE dv
    /\ logs' = IF lg = << >> THEN logs ELSE lg
    /\ loads' = loads (-) SetToBag({c})
    /\ loading' = IF c.andThen = "setLoading" THEN FALSE ELSE loading
    /\ UNCHANGED outcomeObs

\* The continuation of `await Promise.all([fetchDevices(), fetchLogs()])` for
\* call c, with the two results dv and lg: setDevices, setLogs, and then
\* whatever the caller awaits loadData for.
LoadResolve(c, dv, lg) ==
    /\ devices' = dv
    /\ logs' = lg
    /\ loads' = loads (-) SetToBag({c})
    /\ loading' = IF c.andThen = "setLoading" THEN FALSE ELSE loading
    /\ outcomeObs' =
          IF /\ outcomeObs.on
             /\ c.owner > 0
             /\ c.andThen = "setLoading"
             /\ scans[c.owner].endedBy = "completed"
          THEN [outcomeObs EXCEPT !.completed = Observable']
          ELSE outcomeObs

\* fetchDevices() of loadData call c resolves
LoadDevicesRespond(c, ok) ==
    /\ BagIn(c, loads)
    /\ ~c.dv.done
    /\ IF c.lg.done
       THEN LoadResolve(c, fetchDevices(ok), c.lg.val)
       ELSE /\ loads' = (loads (-) SetToBag({c}))
                        (+) SetToBag({[c EXCEPT !.dv = Answer(ok, fetchDevices(ok))]})
            /\ UNCHANGED <<devices, logs, loading, outcomeObs>>
    /\ UNCHANGED <<scans, uiVars, srvDevices, srvLogs, srvScanning, extVars>>

\* fetchLogs() of loadData call c resolves
LoadLogsRespond(c, ok) ==
    /\ BagIn(c, loads)
    /\ ~c.lg.done
    /\ IF c.dv.done
       THEN LoadResolve(c, c.dv.val, fetchLogs(ok))
       ELSE /\ loads' = (loads (-) SetToBag({c}))
                        (+) SetToBag({[c EXCEPT !.lg = Answer(ok, fetchLogs(ok))]})
            /\ UNCHANGED <<devices, logs, loading, outcomeObs>>
    /\ UNCHANGED <<scans, uiVars, srvDevices, srvLogs, srvScanning, extVars>>

\* Both fetches of loadData call c resolve back to back (the backend serves
\* the two GETs from one state)
LoadRespond(c, okDevices, okLogs) ==
    /\ BagIn(c, loads)
    /\ ~c.dv.done
    /\ ~c.lg.done
    /\ LoadResolve(c, fetchDevices(okDevices), fetchLogs(okLogs))
    /\ UNCHANGED <<scans, uiVars, srvDevices, srvLogs, srvScanning, extVars>>

-----------------------------------------------------------------------------
(* Scan Lifecycle Controller: handleScan (App.jsx:133-153) *)

\* The closure of one handleScan call.
\*   pc       "requesting": awaiting triggerScan; "polling": pollInterval is
\*            live; "cleared": clearInterval(pollInterval) has run
\*   timeout  the 120 s setTimeout: "none" (not created), "armed", "fired"
\*   ticked   pollInterval has fired at least once
\*   inflight getScanStatus calls of this scan that have not resolved
\*   endedBy  which path cleared the live pollInterval: "completed", "timeout"
\*   refreshes loadData calls this scan has made (0, 1, 2: more than one)
NewScan ==
    [pc |-> "requesting", timeout |-> "none", ticked |-> FALSE, inflight |-> 0,
     endedBy |-> "none", refreshes |-> 0]

\* The Scan button is rendered with disabled={loading} (App.jsx:350-359).
ScanButtonEnabled == ~loading

\* handleScan up to `await triggerScan()`
handleScan ==
    /\ loading' = TRUE
    /\ scans' = Append(scans, NewScan)
    /\ UNCHANGED <<devices, logs, loads, uiVars, srvDevices, srvLogs, srvScanning, outcomeObs, extVars>>

ClickScan == ScanButtonEnabled /\ handleScan

\* triggerScan() resolves (api.js:34-42: a transport fault is swallowed, the
\* backend then never started): setInterval and setTimeout are created.
TriggerScanRespond(s, ok) ==
    /\ s \in 1..Len(scans)
    /\ scans[s].pc = "requesting"
    /\ srvScanning' = IF ok THEN TRUE ELSE srvScanning
    /\ scans' = [scans EXCEPT ![s].pc = "polling", ![s].timeout = "armed"]
    /\ UNCHANGED <<devices, logs, loading, loads, uiVars, srvDevices, srvLogs, outcomeObs, extVars>>

\* pollInterval fires: the callback runs up to `await getScanStatus()`
PollTick(s) ==
    /\ s \in 1..Len(scans)
    /\ scans[s].pc = "polling"
    /\ scans' = [scans EXCEPT ![s].ticked = TRUE, ![s].inflight = @ + 1]
    /\ UNCHANGED <<devices, logs, loading, loads, uiVars, srvDevices, srvLogs, srvScanning, outcomeObs, extVars>>

\* The completion branch of the poll callback up to `await loadData()`:
\* clearInterval(pollInterval); loadData()
PollCompletion(s) ==
    /\ scans' = [scans EXCEPT
                   ![s].inflight = @ - 1,
                   ![s].pc = "cleared",
                   ![s].endedBy = IF scans[s].pc = "polling" THEN "completed" ELSE @,
                   ![s].refreshes = Bump(@)]
    /\ loads' = loads (+) SetToBag({LoadCall(s, "setLoading")})

\* getScanStatus() of a poll callback resolves
PollRespond(s, ok) ==
    /\ s \in 1..Len(scans)
    /\ scans[s].inflight > 0
    /\ IF ~getScanStatus(ok)
       THEN PollCompletion(s)
       ELSE /\ scans' = [scans EXCEPT ![s].inflight = @ - 1]
            /\ UNCHANGED loads
    /\ UNCHANGED <<devices, logs, loading, uiVars, srvDevices, srvLogs, srvScanning, outcomeObs, extVars>>

\* Mutant of ScanTimeout: the timeout callback without its clearInterval.
ScanTimeoutKeepsPolling(s) ==
    /\ s \in 1..Len(scans)
    /\ scans[s].timeout = "armed"
    /\ scans[s].ticked
    /\ \A r \in 1..(s - 1) : scans[r].timeout = "fired"
    /\ scans' = [scans EXCEPT ![s].timeout = "fired", ![s].refreshes = Bump(@)]
    /\ loading' = FALSE
    /\ loads' = loads (+) SetToBag({LoadCall(s, "none")})
    /\ UNCHANGED <<devices, logs, uiVars, srvDevices, srvLogs, srvScanning, outcomeObs, extVars>>

\* The 120 s setTimeout fires: clearInterval; setLoading(false); loadData().
\* It is never cancelled, so it fires for every scan that was acknowledged.
\* The poll interval (1 s) has fired before the timeout (120 s) is due, and
\* timeouts of the same delay fire in the order they were created.
ScanTimeout(s) ==
    /\ s \in 1..Len(scans)
    /\ scans[s].timeout = "armed"
    /\ scans[s].ticked
    /\ \A r \in 1..(s - 1) : scans[r].timeout = "fired"
    /\ scans' = [scans EXCEPT
                   ![s].timeout = "fired",
                   ![s].pc = "cleared",
                   ![s].endedBy = IF scans[s].pc = "polling" THEN "timeout" ELSE @,
                   ![s].refreshes = Bump(@)]
    /\ loading' = FALSE
    /\ loads' = loads (+) SetToBag({LoadCall(s, "none")})
    /\ UNCHANGED <<devices, logs, uiVars, srvDevices, srvLogs, srvScanning, extVars>>
    /\ outcomeObs' =
          IF outcomeObs.on /\ scans[s].pc = "polling"
          THEN [outcomeObs EXCEPT !.timeout = Observable']
          ELSE outcomeObs

-----------------------------------------------------------------------------
(* Backend (environment): the remote scan *)

NextMac == Macs[Len(srvDevices) + 1]

\* The remote scan ends; it may have found a device, which it then logs.
BackendScanFinish(found) ==
    /\ srvScanning
    /\ srvScanning' = FALSE
    /\ IF found /\ Len(srvDevices) < Len(Macs)
       THEN /\ srvDevices' = Append(srvDevices, Device(NextMac, FALSE))
            /\ srvLogs' = Append(srvLogs, LogEntry(Len(srvLogs) + 1))
       ELSE UNCHANGED <<srvDevices, srvLogs>>
    /\ UNCHANGED <<devices, logs, loading, scans, loads, uiVars, outcomeObs, extVars>>

-----------------------------------------------------------------------------
(* The scan controller with its stores and the backend.  The user starts   *)
(* at most nScans scans; at most nInflight status polls of one scan are    *)
(* unanswered at a time.                                                   *)

UserScans(nScans) == Len(scans) < nScans /\ ClickScan

BoundedPollTick(s, nInflight) ==
    /\ s \in 1..Len(scans)
    /\ scans[s].inflight < nInflight
    /\ PollTick(s)

NextScanWithin(nScans, nInflight) ==
    \/ UserScans(nScans)
    \/ \E s \in 1..nScans, ok \in BOOLEAN : TriggerScanRespond(s, ok)
    \/ \E s \in 1..nScans : BoundedPollTick(s, nInflight)
    \/ \E s \in 1..nScans, ok \in BOOLEAN : PollRespond(s, ok)
    \/ \E s \in 1..nScans : ScanTimeout(s)
    \/ \E c \in BagToSet(loads), okD \in BOOLEAN, okL \in BOOLEAN : LoadRespond(c, okD, okL)
    \/ \E found \in BOOLEAN : BackendScanFinish(found)

\* Scheduling: every backend call is answered and every live timer fires.
\* Nothing is assumed of the user or of the remote scan ever finishing.
FairScanWithin(nScans, nInflight) ==
    /\ \A s \in 1..nScans : WF_vars(\E ok \in BOOLEAN : TriggerScanRespond(s, ok))
    /\ \A s \in 1..nScans : WF_vars(BoundedPollTick(s, nInflight))
    /\ \A s \in 1..nScans : WF_vars(\E ok \in BOOLEAN : PollRespond(s, ok))
    /\ \A s \in 1..nScans : WF_vars(ScanTimeout(s))
    /\ WF_vars(\E c \in BagToSet(loads), okD \in BOOLEAN, okL \in BOOLEAN : LoadRespond(c, okD, okL))

NextScan == NextScanWithin(MaxScans, MaxInflight)

SpecScan == Init /\ [][NextScan]_vars

NextScanFair == NextScanWithin(MaxFairScans, MaxFairInflight)

SpecScanFair ==
    Init /\ [][NextScanFair]_vars /\ FairScanWithin(MaxFairScans, MaxFairInflight)

NextScanOutcome == NextScanWithin(MaxObsScans, MaxObsInflight)

SpecScanOutcome == InitObserved /\ [][NextScanOutcome]_vars

-----------------------------------------------------------------------------
(* Optimistic Mutation Coordinator: block toggle                           *)
(* handleToggleBlock (App.jsx:193-219), and the device modal of the legacy *)
(* view, whose Block button calls it.                                      *)

\* A device card is clicked (openDeviceModal): setSelectedDevice(device);
\* setNicknameDraft(device.nickname || ... || "").  The modal covers the
\* cards, so a card can be clicked only while no modal is open.
SelectDevice(i) ==
    /\ selectedDevice = NullDevice
    /\ i \in 1..Len(devices)
    /\ selectedDevice' = devices[i]
    /\ nicknameDraft' = devices[i].nickname
    /\ UNCHANGED <<devices, logs, loading, processingId, scans, loads, toggles,
                   srvDevices, srvLogs, srvScanning, outcomeObs,
                   renames, bulkVars, autoVars, reportVars, srvAutoVars>>

\* The modal's X or Done: setSelectedDevice(null)
CloseModal ==
    /\ selectedDevice # NullDevice
    /\ selectedDevice' = NullDevice
    /\ UNCHANGED <<devices, logs, loading, processingId, scans, loads, toggles,
                   srvDevices, srvLogs, srvScanning, outcomeObs, extVars>>

\* The Block button is rendered with disabled={processingId === selectedDevice.mac}.
BlockButtonEnabled == processingId # selectedDevice.mac

\* The closure of one handleToggleBlock(mac) call.
\*   pc        "toggle": awaiting toggleDeviceBlock; "logs": awaiting
\*             fetchLogs; "done": returned
\*   ok        the response was {status: "success"}; isBlocked: its isBlocked
\*   hit       the map of setDevices found a device with this mac
NewToggle(mac) ==
    [mac |-> mac, pc |-> "toggle", ok |-> FALSE, isBlocked |-> FALSE, hit |-> FALSE]

\* Mutant of handleToggleBlock: the block flag is flipped in the store when
\* the request is sent, before any response.
handleToggleBlockOptimistic(mac) ==
    /\ mac # UndefMac
    /\ processingId' = mac
    /\ toggles' = Append(toggles, NewToggle(mac))
    /\ devices' = [i \in 1..Len(devices) |->
                     IF devices[i].mac = mac
                     THEN [devices[i] EXCEPT !.isBlocked = ~@]
                     ELSE devices[i]]
    /\ UNCHANGED <<logs, loading, selectedDevice, scans, loads,
                   srvDevices, srvLogs, srvScanning, outcomeObs, extVars>>

\* handleToggleBlock(mac) up to `await toggleDeviceBlock(mac)`.  For a falsy
\* mac, toggleDeviceBlock returns undefined without a request (api.js:64-67)
\* and the handler runs through to setProcessingId(null).
handleToggleBlock(mac) ==
    /\ IF mac = UndefMac
       THEN /\ processingId' = NoMac
            /\ UNCHANGED toggles
       ELSE /\ processingId' = mac
            /\ toggles' = Append(toggles, NewToggle(mac))
    /\ UNCHANGED <<devices, logs, loading, selectedDevice, scans, loads,
                   srvDevices, srvLogs, srvScanning, outcomeObs, extVars>>

ClickToggle ==
    /\ selectedDevice # NullDevice
    /\ BlockButtonEnabled
    /\ handleToggleBlock(selectedDevice.mac)

\* The backend's isBlocked of mac.
SrvBlocked(mac) ==
    \E i \in 1..Len(srvDevices) : srvDevices[i].mac = mac /\ srvDevices[i].isBlocked

\* Mutant of PatchBlocked: a patch for a mac the list does not hold adds it.
PatchBlockedUpsert(ds, mac, b) ==
    IF mac \in MacsOf(ds)
    THEN [i \in 1..Len(ds) |-> IF ds[i].mac = mac THEN [ds[i] EXCEPT !.isBlocked = b] ELSE ds[i]]
    ELSE Append(ds, Device(mac, b))

\* setDevices(prev => prev.map(d => d.mac === mac ? {...d, isBlocked} : d))
PatchBlocked(ds, mac, b) ==
    [i \in 1..Len(ds) |-> IF ds[i].mac = mac THEN [ds[i] EXCEPT !.isBlocked = b] ELSE ds[i]]

\* setSelectedDevice(prev => ({...prev, isBlocked})): spreading null gives an
\* object without a mac.
PatchSelected(prev, b) ==
    IF prev = NullDevice THEN Device(UndefMac, b) ELSE [prev EXCEPT !.isBlocked = b]

\* Mutant of ToggleSuccess: the success branch without its fetchLogs().
ToggleSuccessNoLogRefresh(t, b) ==
    /\ devices' = PatchBlocked(devices, toggles[t].mac, b)
    /\ selectedDevice' = PatchSelected(selectedDevice, b)
    /\ toggles' = [toggles EXCEPT ![t].pc = "done", ![t].ok = TRUE, ![t].isBlocked = b]
    /\ processingId' = NoMac

\* Mutant of ToggleSuccess: the result is merged into the copy of the device
\* the modal holds, `{...selectedDevice, isBlocked}`, and not into the entry
\* the store holds when the response is applied.
ToggleSuccessIntoModalCopy(t, b) ==
    /\ devices' = [i \in 1..Len(devices) |->
                     IF devices[i].mac = toggles[t].mac
                     THEN PatchSelected(selectedDevice, b)
                     ELSE devices[i]]
    /\ selectedDevice' = PatchSelected(selectedDevice, b)
    /\ toggles' = [toggles EXCEPT ![t].pc = "logs", ![t].ok = TRUE, ![t].isBlocked = b,
                                  ![t].hit = toggles[t].mac \in MacsOf(devices)]
    /\ UNCHANGED processingId

\* The success branch of handleToggleBlock up to `await fetchLogs()`.  The
\* closure's selectedDevice is the device whose mac was passed, so the test
\* `selectedDevice && selectedDevice.mac === mac` holds.
ToggleSuccess(t, b) ==
    /\ devices' = PatchBlocked(devices, toggles[t].mac, b)
    /\ selectedDevice' = PatchSelected(selectedDevice, b)
    /\ toggles' = [toggles EXCEPT ![t].pc = "logs", ![t].ok = TRUE, ![t].isBlocked = b,
                                  ![t].hit = toggles[t].mac \in MacsOf(devices)]
    /\ UNCHANGED processingId

\* Mutant of ToggleFailure: setProcessingId(null) only on the success path.
ToggleFailureKeepsLock(t) ==
    /\ toggles' = [toggles EXCEPT ![t].pc = "done"]
    /\ UNCHANGED <<devices, selectedDevice, processingId>>

\* handleToggleBlock after a result that is undefined or not a success:
\* setProcessingId(null)
ToggleFailure(t) ==
    /\ processingId' = NoMac
    /\ toggles' = [toggles EXCEPT ![t].pc = "done"]
    /\ UNCHANGED <<devices, selectedDevice>>

\* toggleDeviceBlock(mac) resolves.  "success": the backend flipped the
\* device's block flag, logged it and answered {status: "success", isBlocked};
\* "rejected": it answered another status; "fault": the fetch threw and
\* toggleDeviceBlock returned undefined (api.js:72-74).
ToggleRespond(t, outcome) ==
    /\ t \in 1..Len(toggles)
    /\ toggles[t].pc = "toggle"
    /\ IF outcome = "success"
       THEN /\ toggles[t].mac \in MacsOf(srvDevices)
            /\ srvDevices' = PatchBlocked(srvDevices, toggles[t].mac, ~SrvBlocked(toggles[t].mac))
            /\ srvLogs' = Append(srvLogs, LogEntry(Len(srvLogs) + 1))
            /\ ToggleSuccess(t, ~SrvBlocked(toggles[t].mac))
       ELSE /\ ToggleFailure(t)
            /\ UNCHANGED <<srvDevices, srvLogs>>
    /\ UNCHANGED <<logs, loading, scans, loads, srvScanning, outcomeObs, extVars>>

\* fetchLogs() of the success branch resolves: setLogs(newLogs);
\* setProcessingId(null)
ToggleLogsRespond(t, ok) ==
    /\ t \in 1..Len(toggles)
    /\ toggles[t].pc = "logs"
    /\ logs' = fetchLogs(ok)
    /\ processingId' = NoMac
    /\ toggles' = [toggles EXCEPT ![t].pc = "done"]
    /\ UNCHANGED <<devices, loading, selectedDevice, scans, loads,
                   srvDevices, srvLogs, srvScanning, outcomeObs, extVars>>

UserToggles == Len(toggles) < MaxToggles /\ ClickToggle

NextToggle ==
    \/ \E i \in 1..Len(Macs) : SelectDevice(i)
    \/ CloseModal
    \/ UserToggles
    \/ \E t \in 1..MaxToggles, outcome \in {"success", "rejected", "fault"} :
          ToggleRespond(t, outcome)
    \/ \E t \in 1..MaxToggles, ok \in BOOLEAN : ToggleLogsRespond(t, ok)
    \/ \E c \in BagToSet(loads), okD \in BOOLEAN, okL \in BOOLEAN : LoadRespond(c, okD, okL)

SpecToggle == Init /\ [][NextToggle]_vars

\* Scheduling: every backend call of a toggle is answered.
FairToggle ==
    /\ \A t \in 1..MaxToggles :
          WF_vars(\E outcome \in {"success", "rejected", "fault"} : ToggleRespond(t, outcome))
    /\ \A t \in 1..MaxToggles : WF_vars(\E ok \in BOOLEAN : ToggleLogsRespond(t, ok))

SpecToggleFair == SpecToggle /\ FairToggle

-----------------------------------------------------------------------------
(* Optimistic Mutation Coordinator: nickname update                        *)
(* the Save button of the device modal (App.jsx:489-509) and               *)
(* updateDeviceNickname (api.js:77-94)                                     *)

\* What the user can type into the Device Label input.
Nicks == {"", "tv"}

\* The input's onChange: setNicknameDraft(e.target.value)
TypeNickname(n) ==
    /\ selectedDevice # NullDevice
    /\ nicknameDraft # n
    /\ nicknameDraft' = n
    /\ UNCHANGED <<devices, logs, loading, scans, loads, uiVars,
                   srvDevices, srvLogs, srvScanning, outcomeObs,
                   renames, bulkVars, autoVars, reportVars, srvAutoVars>>

\* The closure of one Save click: mac and nickname are what the click's
\* render held (selectedDevice.mac, nicknameDraft || ""); pc "await":
\* updateDeviceNickname has not resolved; ok: it resolved with success; hit:
\* the map of setDevices found a device with this mac.
NewRename(mac, nickname) ==
    [mac |-> mac, nickname |-> nickname, pc |-> "await", ok |-> FALSE, hit |-> FALSE]

\* Save's onClick up to `await updateDeviceNickname(mac, nicknameDraft || "")`.
\* For a device object without a mac, updateDeviceNickname returns undefined
\* without a request (api.js:78-81) and the handler changes nothing.
saveNickname ==
    /\ renames' = IF selectedDevice.mac = UndefMac
                  THEN renames
                  ELSE Append(renames, NewRename(selectedDevice.mac, nicknameDraft))
    /\ UNCHANGED <<devices, logs, loading, scans, loads, uiVars,
                   srvDevices, srvLogs, srvScanning, outcomeObs,
                   nicknameDraft, bulkVars, autoVars, reportVars, srvAutoVars>>

ClickSave ==
    /\ selectedDevice # NullDevice
    /\ saveNickname

\* prev.map(d => d.mac === mac ? {...d, nickname} : d)
PatchNickname(ds, mac, nickname) ==
    [i \in 1..Len(ds) |-> IF ds[i].mac = mac THEN [ds[i] EXCEPT !.nickname = nickname] ELSE ds[i]]

\* setSelectedDevice(prev => prev ? {...prev, nickname} : prev)
PatchSelectedNickname(prev, nickname) ==
    IF prev = NullDevice THEN prev ELSE [prev EXCEPT !.nickname = nickname]

\* Mutant of SaveNicknameSuccess: the patch takes the nickname from the
\* input as it is when the response arrives.
SaveNicknameSuccessLiveDraft(r) ==
    /\ devices' = PatchNickname(devices, renames[r].mac, nicknameDraft)
    /\ selectedDevice' = PatchSelectedNickname(selectedDevice, nicknameDraft)
    /\ renames' = [renames EXCEPT ![r].pc = "done", ![r].ok = TRUE]

\* Mutant of SaveNicknameSuccess: the patched device is added to the list
\* instead of replacing the one it was made from.
SaveNicknameSuccessAppend(r) ==
    /\ devices' = devices \o SelectSeq(PatchNickname(devices, renames[r].mac, renames[r].nickname),
                                        LAMBDA d : d.mac = renames[r].mac)
    /\ selectedDevice' = PatchSelectedNickname(selectedDevice, renames[r].nickname)
    /\ renames' = [renames EXCEPT ![r].pc = "done", ![r].ok = TRUE,
                                  ![r].hit = renames[r].mac \in MacsOf(devices)]

\* The success branch of Save's onClick: setDevices, setSelectedDevice
SaveNicknameSuccess(r) ==
    /\ devices' = PatchNickname(devices, renames[r].mac, renames[r].nickname)
    /\ selectedDevice' = PatchSelectedNickname(selectedDevice, renames[r].nickname)
    /\ renames' = [renames EXCEPT ![r].pc = "done", ![r].ok = TRUE,
                                  ![r].hit = renames[r].mac \in MacsOf(devices)]

\* updateDeviceNickname(mac, nickname) resolves.  "success": the backend
\* stored the nickname and answered {status: "success"}; "rejected": it
\* answered another status; "fault": the fetch threw and updateDeviceNickname
\* returned {status: "error"} (api.js:90-93).
SaveNicknameRespond(r, outcome) ==
    /\ r \in 1..Len(renames)
    /\ renames[r].pc = "await"
    /\ IF outcome = "success"
       THEN /\ renames[r].mac \in MacsOf(srvDevices)
            /\ srvDevices' = PatchNickname(srvDevices, renames[r].mac, renames[r].nickname)
            /\ SaveNicknameSuccess(r)
       ELSE /\ renames' = [renames EXCEPT ![r].pc = "done"]
            /\ UNCHANGED <<devices, selectedDevice, srvDevices>>
    /\ UNCHANGED <<logs, loading, scans, loads, processingId, toggles,
                   srvLogs, srvScanning, outcomeObs,
                   nicknameDraft, bulkVars, autoVars, reportVars, srvAutoVars>>

UserRenames(nRenames) == Len(renames) < nRenames /\ ClickSave

NextNickname ==
    \/ \E i \in 1..Len(Macs) : SelectDevice(i)
    \/ CloseModal
    \/ \E n \in Nicks : TypeNickname(n)
    \/ UserRenames(MaxRenames)
    \/ \E r \in 1..MaxRenames, outcome \in {"success", "rejected", "fault"} :
          SaveNicknameRespond(r, outcome)
    \/ \E c \in BagToSet(loads), okD \in BOOLEAN, okL \in BOOLEAN : LoadRespond(c, okD, okL)

SpecNickname == Init /\ [][NextNickname]_vars

-----------------------------------------------------------------------------
(* Optimistic Mutation Coordinator: panic lock and panic unlock            *)
(* handlePanic (App.jsx:155-172), handleUnlockPanic (App.jsx:174-191)      *)

\* The closure of one handlePanic ("panic") or handleUnlockPanic ("unlock")
\* call; pc "await": the bulk request has not resolved; "logs": awaiting
\* fetchLogs; "done": returned.
NewBulk(kind) == [kind |-> kind, pc |-> "await", ok |-> FALSE]

\* handlePanic up to `await triggerPanicMode()`
handlePanic ==
    /\ ~panicProcessing
    /\ panicProcessing' = TRUE
    /\ bulks' = Append(bulks, NewBulk("panic"))
    /\ UNCHANGED <<devices, logs, loading, scans, loads, uiVars,
                   srvDevices, srvLogs, srvScanning, outcomeObs,
                   unlockProcessing, nickVars, autoVars, reportVars, srvAutoVars>>

\* handleUnlockPanic up to `await triggerUnlockPanicControl()`
handleUnlockPanic ==
    /\ ~unlockProcessing
    /\ unlockProcessing' = TRUE
    /\ bulks' = Append(bulks, NewBulk("unlock"))
    /\ UNCHANGED <<devices, logs, loading, scans, loads, uiVars,
                   srvDevices, srvLogs, srvScanning, outcomeObs,
                   panicProcessing, nickVars, autoVars, reportVars, srvAutoVars>>

\* Mutant of BulkFinally: the flag is reset at the end of the success branch
\* only, not in a finally block.
BulkFinallyAfterSuccessOnly(b) ==
    /\ panicProcessing' =
          IF bulks[b].kind = "panic" /\ bulks[b].ok THEN FALSE ELSE panicProcessing
    /\ unlockProcessing' =
          IF bulks[b].kind = "unlock" /\ bulks[b].ok THEN FALSE ELSE unlockProcessing

\* finally { setPanicProcessing(false) } / finally { setUnlockProcessing(false) }
BulkFinally(b) ==
    /\ panicProcessing' = IF bulks[b].kind = "panic" THEN FALSE ELSE panicProcessing
    /\ unlockProcessing' = IF bulks[b].kind = "unlock" THEN FALSE ELSE unlockProcessing

\* The backend blocks every device (panic) or unblocks every device (unlock).
SrvBlockAll(ds, b) == [i \in 1..Len(ds) |-> [ds[i] EXCEPT !.isBlocked = b]]

\* Mutant of BulkSuccess: the success branch also sets the block flag of
\* every device in the store.
BulkSuccessEagerPatch(b) ==
    /\ bulks' = [bulks EXCEPT ![b].pc = "logs", ![b].ok = TRUE]
    /\ devices' = SrvBlockAll(devices, bulks[b].kind = "panic")
    /\ UNCHANGED <<logs, panicProcessing, unlockProcessing>>

\* The success branch up to `await fetchLogs()`: alert(...)
BulkSuccess(b) ==
    /\ bulks' = [bulks EXCEPT ![b].pc = "logs", ![b].ok = TRUE]
    /\ UNCHANGED <<devices, logs, panicProcessing, unlockProcessing>>

\* triggerPanicMode() / triggerUnlockPanicControl() resolves.  "success":
\* {status: "success"}; "rejected": another status; "fault": the fetch threw
\* and the call returned [] (api.js:101-103) or {status: "error"}
\* (api.js:111-113), both of which take the else branch.
BulkRespond(b, outcome) ==
    /\ b \in 1..Len(bulks)
    /\ bulks[b].pc = "await"
    /\ IF outcome = "success"
       THEN /\ srvDevices' = SrvBlockAll(srvDevices, bulks[b].kind = "panic")
            /\ srvLogs' = Append(srvLogs, LogEntry(Len(srvLogs) + 1))
            /\ BulkSuccess(b)
       ELSE /\ bulks' = [bulks EXCEPT ![b].pc = "done"]
            /\ BulkFinally(b)
            /\ UNCHANGED <<devices, logs, srvDevices, srvLogs>>
    /\ UNCHANGED <<loading, scans, loads, uiVars, srvScanning, outcomeObs,
                   nickVars, autoVars, reportVars, srvAutoVars>>

\* fetchLogs() of the success branch resolves: setLogs(newLogs); finally
BulkLogsRespond(b, ok) ==
    /\ b \in 1..Len(bulks)
    /\ bulks[b].pc = "logs"
    /\ logs' = fetchLogs(ok)
    /\ bulks' = [bulks EXCEPT ![b].pc = "done"]
    /\ BulkFinally(b)
    /\ UNCHANGED <<devices, loading, scans, loads, uiVars,
                   srvDevices, srvLogs, srvScanning, outcomeObs,
                   nickVars, autoVars, reportVars, srvAutoVars>>

UserBulks == Len(bulks) < MaxBulks /\ (handlePanic \/ handleUnlockPanic)

NextBulk ==
    \/ UserBulks
    \/ \E b \in 1..MaxBulks, outcome \in {"success", "rejected", "fault"} :
          BulkRespond(b, outcome)
    \/ \E b \in 1..MaxBulks, ok \in BOOLEAN : BulkLogsRespond(b, ok)
    \/ \E c \in BagToSet(loads), okD \in BOOLEAN, okL \in BOOLEAN : LoadRespond(c, okD, okL)

SpecBulk == Init /\ [][NextBulk]_vars

\* Scheduling: every bulk request and every log fetch is answered.
FairBulk ==
    /\ \A b \in 1..MaxBulks :
          WF_vars(\E outcome \in {"success", "rejected", "fault"} : BulkRespond(b, outcome))
    /\ \A b \in 1..MaxBulks : WF_vars(\E ok \in BOOLEAN : BulkLogsRespond(b, ok))

SpecBulkFair == SpecBulk /\ FairBulk

-----------------------------------------------------------------------------
(* Auto-Scan Scheduler: loadAutoScanStatus (App.jsx:222-226),              *)
(* handleToggleAutoScan (App.jsx:228-247) and the polling effect           *)
(* (App.jsx:79-102)                                                        *)

\* loadData() calls of the scheduler carry this owner.
AutoOwner == 0 - 1

\* One run of the polling effect with autoScanEnabled true: its setInterval
\* (live until the cleanup's clearInterval), the `devices` of the render it
\* ran in, and its lastDeviceCount.
NewEffect == [live |-> TRUE, devs |-> devices, lastCount |-> Len(devices)]

\* The cleanup of every earlier run: clearInterval(pollInterval)
Cleanup(effects) == [e \in 1..Len(effects) |-> [effects[e] EXCEPT !.live = FALSE]]

\* Mutant of autoScanEffect: the effect returns no cleanup.
autoScanEffectNoCleanup(enabled) ==
    IF enabled = autoScanEnabled
    THEN autoEffects
    ELSE IF enabled THEN Append(autoEffects, NewEffect) ELSE autoEffects

\* The polling effect after setAutoScanEnabled(enabled): React re-runs it
\* only if the value changed (dependency [autoScanEnabled]); the previous
\* run's cleanup comes first; `if (!autoScanEnabled) return`.
autoScanEffect(enabled) ==
    IF enabled = autoScanEnabled
    THEN autoEffects
    ELSE IF enabled THEN Append(Cleanup(autoEffects), NewEffect) ELSE Cleanup(autoEffects)

\* setAutoScanEnabled(enabled), the render and the effect it causes
setAutoScanEnabled(enabled) ==
    /\ autoScanEnabled' = enabled
    /\ autoEffects' = autoScanEffect(enabled)

\* getAutoScanStatus() of loadAutoScanStatus resolves with the backend's
\* flag, or with {enabled: false} when the fetch throws (api.js:147-155).
AutoStatusRespond(c, enabled) ==
    /\ mounted
    /\ c \in 1..Len(autoCalls)
    /\ autoCalls[c].kind = "status"
    /\ autoCalls[c].pc = "await"
    /\ setAutoScanEnabled(enabled)
    /\ autoCalls' = [autoCalls EXCEPT ![c].pc = "done"]
    /\ UNCHANGED <<devices, logs, loading, scans, loads, uiVars,
                   srvDevices, srvLogs, srvScanning, outcomeObs,
                   nickVars, bulkVars, autoPolls, mounted, reportVars, srvAutoVars>>

\* handleToggleAutoScan up to `await stopAutoScan()` / `await startAutoScan()`
handleToggleAutoScan ==
    /\ mounted
    /\ autoCalls' = Append(autoCalls, AutoCall(IF autoScanEnabled THEN "stop" ELSE "start"))
    /\ UNCHANGED <<devices, logs, loading, scans, loads, uiVars,
                   srvDevices, srvLogs, srvScanning, outcomeObs,
                   nickVars, bulkVars, autoScanEnabled, autoEffects, autoPolls, mounted, reportVars, srvAutoVars>>

\* Mutant of AutoCallRespond: the flag is flipped whatever the status of
\* the answer.
AutoCallRespondIgnoresStatus(c, ok) ==
    /\ mounted
    /\ c \in 1..Len(autoCalls)
    /\ autoCalls[c].kind \in {"stop", "start"}
    /\ autoCalls[c].pc = "await"
    /\ setAutoScanEnabled(autoCalls[c].kind = "start")
    /\ IF autoCalls[c].kind = "stop"
       THEN /\ loads' = loads (+) SetToBag({LoadCall(AutoOwner, "none")})
            /\ autoCalls' = [autoCalls EXCEPT ![c].pc = "done", ![c].ok = ok]
       ELSE /\ autoCalls' = [autoCalls EXCEPT ![c].pc = "timer", ![c].ok = ok]
            /\ UNCHANGED loads
    /\ UNCHANGED <<devices, logs, loading, scans, uiVars,
                   srvDevices, srvLogs, srvScanning, outcomeObs,
                   nickVars, bulkVars, autoPolls, mounted, reportVars, srvAutoVars>>

\* Mutant of AutoCallRespond: a successful start also starts a scan.
AutoCallRespondStartsScan(c, ok) ==
    /\ mounted
    /\ c \in 1..Len(autoCalls)
    /\ autoCalls[c].kind \in {"stop", "start"}
    /\ autoCalls[c].pc = "await"
    /\ IF ok
       THEN /\ setAutoScanEnabled(autoCalls[c].kind = "start")
            /\ IF autoCalls[c].kind = "stop"
               THEN /\ loads' = loads (+) SetToBag({LoadCall(AutoOwner, "none")})
                    /\ autoCalls' = [autoCalls EXCEPT ![c].pc = "done", ![c].ok = TRUE]
                    /\ UNCHANGED <<loading, scans>>
               ELSE /\ autoCalls' = [autoCalls EXCEPT ![c].pc = "timer", ![c].ok = TRUE]
                    /\ loading' = TRUE
                    /\ scans' = Append(scans, NewScan)
                    /\ UNCHANGED loads
       ELSE /\ autoCalls' = [autoCalls EXCEPT ![c].pc = "done"]
            /\ UNCHANGED <<autoScanEnabled, autoEffects, loads, loading, scans>>
    /\ UNCHANGED <<devices, logs, uiVars,
                   srvDevices, srvLogs, srvScanning, outcomeObs,
                   nickVars, bulkVars, autoPolls, mounted, reportVars, srvAutoVars>>

\* stopAutoScan() / startAutoScan() resolves; ok: with {status: "success"}.
\* stop: setAutoScanEnabled(false); await loadData().
\* start: setAutoScanEnabled(true); setTimeout(() => loadData(), 2000).
AutoCallRespond(c, ok) ==
    /\ mounted
    /\ c \in 1..Len(autoCalls)
    /\ autoCalls[c].kind \in {"stop", "start"}
    /\ autoCalls[c].pc = "await"
    /\ IF ok
       THEN /\ setAutoScanEnabled(autoCalls[c].kind = "start")
            /\ IF autoCalls[c].kind = "stop"
               THEN /\ loads' = loads (+) SetToBag({LoadCall(AutoOwner, "none")})
                    /\ autoCalls' = [autoCalls EXCEPT ![c].pc = "done", ![c].ok = TRUE]
               ELSE /\ autoCalls' = [autoCalls EXCEPT ![c].pc = "timer", ![c].ok = TRUE]
                    /\ UNCHANGED loads
       ELSE /\ autoCalls' = [autoCalls EXCEPT ![c].pc = "done"]
            /\ UNCHANGED <<autoScanEnabled, autoEffects, loads>>
    /\ UNCHANGED <<devices, logs, loading, scans, uiVars,
                   srvDevices, srvLogs, srvScanning, outcomeObs,
                   nickVars, bulkVars, autoPolls, mounted, reportVars, srvAutoVars>>

\* The 2 s setTimeout of a start fires: loadData()
AutoInitialRefresh(c) ==
    /\ mounted
    /\ c \in 1..Len(autoCalls)
    /\ autoCalls[c].pc = "timer"
    /\ autoCalls' = [autoCalls EXCEPT ![c].pc = "done"]
    /\ loads' = loads (+) SetToBag({LoadCall(AutoOwner, "none")})
    /\ UNCHANGED <<devices, logs, loading, scans, uiVars,
                   srvDevices, srvLogs, srvScanning, outcomeObs,
                   nickVars, bulkVars, autoScanEnabled, autoEffects, autoPolls, mounted, reportVars, srvAutoVars>>

\* The closure of one tick of effect eff; pc "devices": awaiting
\* fetchDevices; "logs": awaiting fetchLogs, cur holds currentDevices.
NewPoll(eff) == [eff |-> eff, pc |-> "devices", cur |-> << >>]

\* pollInterval of effect e fires: the callback runs up to `await fetchDevices()`
AutoPollTick(e) ==
    /\ mounted
    /\ e \in 1..Len(autoEffects)
    /\ autoEffects[e].live
    /\ autoPolls' = Append(autoPolls, NewPoll(e))
    /\ UNCHANGED <<devices, logs, loading, scans, loads, uiVars,
                   srvDevices, srvLogs, srvScanning, outcomeObs,
                   nickVars, bulkVars, autoScanEnabled, autoEffects, autoCalls, mounted, reportVars, srvAutoVars>>

\* fetchDevices() of tick q resolves: `await fetchLogs()` follows
AutoPollDevicesRespond(q, ok) ==
    /\ mounted
    /\ q \in 1..Len(autoPolls)
    /\ autoPolls[q].pc = "devices"
    /\ autoPolls' = [autoPolls EXCEPT ![q].pc = "logs", ![q].cur = fetchDevices(ok)]
    /\ UNCHANGED <<devices, logs, loading, scans, loads, uiVars,
                   srvDevices, srvLogs, srvScanning, outcomeObs,
                   nickVars, bulkVars, autoScanEnabled, autoEffects, autoCalls, mounted, reportVars, srvAutoVars>>

\* currentDevices.length !== lastDeviceCount ||
\* JSON.stringify(currentDevices) !== JSON.stringify(devices)
\* with the lastDeviceCount and the devices of the tick's effect closure
PollSeesChange(q) ==
    \/ Len(autoPolls[q].cur) # autoEffects[autoPolls[q].eff].lastCount
    \/ autoPolls[q].cur # autoEffects[autoPolls[q].eff].devs

\* fetchLogs() of tick q resolves: setDevices, setLogs and lastDeviceCount
\* if the fetched devices differ
AutoPollLogsRespond(q, ok) ==
    /\ mounted
    /\ q \in 1..Len(autoPolls)
    /\ autoPolls[q].pc = "logs"
    /\ autoPolls' = [autoPolls EXCEPT ![q].pc = "done"]
    /\ IF PollSeesChange(q)
       THEN /\ devices' = autoPolls[q].cur
            /\ logs' = fetchLogs(ok)
            /\ autoEffects' = [autoEffects EXCEPT
                                 ![autoPolls[q].eff].lastCount = Len(autoPolls[q].cur)]
       ELSE UNCHANGED <<devices, logs, autoEffects>>
    /\ UNCHANGED <<loading, scans, loads, uiVars,
                   srvDevices, srvLogs, srvScanning, outcomeObs,
                   nickVars, bulkVars, autoScanEnabled, autoCalls, mounted, reportVars, srvAutoVars>>

\* The component is discarded: the cleanup of the polling effect runs.
Unmount ==
    /\ mounted
    /\ mounted' = FALSE
    /\ autoEffects' = Cleanup(autoEffects)
    /\ UNCHANGED <<devices, logs, loading, scans, loads, uiVars,
                   srvDevices, srvLogs, srvScanning, outcomeObs,
                   nickVars, bulkVars, autoScanEnabled, autoPolls, autoCalls, reportVars, srvAutoVars>>

UserAutoClicks == Len(autoCalls) <= MaxAutoClicks /\ handleToggleAutoScan

BoundedAutoPollTick(e) == Len(autoPolls) < MaxAutoPolls /\ AutoPollTick(e)

\* loadData resolves while the component is mounted.
MountedLoadRespond(c, okDevices, okLogs) == mounted /\ LoadRespond(c, okDevices, okLogs)

\* Every step takes place while the component is mounted: once it is
\* discarded, its state is gone and a setState of a late response is a no-op.
NextAuto ==
    \/ \E c \in 1..(MaxAutoClicks + 1), enabled \in BOOLEAN : AutoStatusRespond(c, enabled)
    \/ UserAutoClicks
    \/ \E c \in 1..(MaxAutoClicks + 1), ok \in BOOLEAN : AutoCallRespond(c, ok)
    \/ \E c \in 1..(MaxAutoClicks + 1) : AutoInitialRefresh(c)
    \/ \E e \in 1..(MaxAutoClicks + 1) : BoundedAutoPollTick(e)
    \/ \E q \in 1..MaxAutoPolls, ok \in BOOLEAN : AutoPollDevicesRespond(q, ok)
    \/ \E q \in 1..MaxAutoPolls, ok \in BOOLEAN : AutoPollLogsRespond(q, ok)
    \/ \E c \in BagToSet(loads), okD \in BOOLEAN, okL \in BOOLEAN : MountedLoadRespond(c, okD, okL)
    \/ Unmount

SpecAuto == Init /\ [][NextAuto]_vars

-----------------------------------------------------------------------------
(* The mutation coordinator next to the auto-scan scheduler: block toggles *)
(* and nickname saves in the device modal, which stays open, while the     *)
(* scheduler refreshes the stores (the loadData of a start or stop, one    *)
(* poll tick)                                                              *)

PatchBudget == Len(toggles) + Len(renames) < MaxPatchOps

\* The user clicks the Auto-Scan button once.
FirstAutoClick == Len(autoCalls) = 1 /\ handleToggleAutoScan

\* The first tick of an auto-scan poll timer.
FirstAutoPollTick(e) == autoPolls = << >> /\ AutoPollTick(e)

NextPatch ==
    \/ \E i \in 1..Len(Macs) : SelectDevice(i)
    \/ \E n \in Nicks : TypeNickname(n)
    \/ PatchBudget /\ ClickToggle
    \/ PatchBudget /\ ClickSave
    \/ \E t \in 1..MaxPatchOps, outcome \in {"success", "rejected", "fault"} :
          ToggleRespond(t, outcome)
    \/ \E t \in 1..MaxPatchOps, ok \in BOOLEAN : ToggleLogsRespond(t, ok)
    \/ \E r \in 1..MaxPatchOps, outcome \in {"success", "rejected", "fault"} :
          SaveNicknameRespond(r, outcome)
    \/ \E c \in 1..Len(autoCalls), enabled \in BOOLEAN : AutoStatusRespond(c, enabled)
    \/ FirstAutoClick
    \/ \E c \in 1..Len(autoCalls), ok \in BOOLEAN : AutoCallRespond(c, ok)
    \/ \E c \in 1..Len(autoCalls) : AutoInitialRefresh(c)
    \/ \E e \in 1..Len(autoEffects) : FirstAutoPollTick(e)
    \/ \E q \in 1..Len(autoPolls), ok \in BOOLEAN : AutoPollDevicesRespond(q, ok)
    \/ \E q \in 1..Len(autoPolls), ok \in BOOLEAN : AutoPollLogsRespond(q, ok)
    \/ \E c \in BagToSet(loads), okD \in BOOLEAN, okL \in BOOLEAN : LoadRespond(c, okD, okL)

SpecPatch == Init /\ [][NextPatch]_vars

-----------------------------------------------------------------------------
(* The scan controller next to the auto-scan poll, with a backend that     *)
(* answers every call: no fetch faults, so that what the stores end up     *)
(* with depends on the order of requests and responses alone               *)

OverlapPollTick(e) == Len(autoPolls) < MaxOverlapPolls /\ AutoPollTick(e)

NextOverlap ==
    \/ \E c \in 1..Len(autoCalls), enabled \in BOOLEAN : AutoStatusRespond(c, enabled)
    \/ UserScans(MaxOverlapScans)
    \/ \E s \in 1..MaxOverlapScans : TriggerScanRespond(s, TRUE)
    \/ \E s \in 1..MaxOverlapScans : BoundedPollTick(s, MaxOverlapInflight)
    \/ \E s \in 1..MaxOverlapScans : PollRespond(s, TRUE)
    \/ \E s \in 1..MaxOverlapScans : ScanTimeout(s)
    \/ \E found \in BOOLEAN : BackendScanFinish(found)
    \/ \E e \in 1..Len(autoEffects) : OverlapPollTick(e)
    \/ \E q \in 1..Len(autoPolls) : AutoPollDevicesRespond(q, TRUE)
    \/ \E q \in 1..Len(autoPolls) : AutoPollLogsRespond(q, TRUE)
    \/ \E c \in BagToSet(loads) : LoadRespond(c, TRUE, TRUE)

SpecOverlap == Init /\ [][NextOverlap]_vars

-----------------------------------------------------------------------------
(* The scan controller and the auto-scan scheduler side by side, with      *)
(* every outcome of every backend call                                     *)

\* Scans started, Auto-Scan clicks and poll ticks so far (autoCalls starts
\* with the loadAutoScanStatus call of the mount effect).
MixOps == Len(scans) + (Len(autoCalls) - 1) + Len(autoPolls)

MixBudget == MixOps < MaxMixOps

\* A status poll of scan s whose predecessor has been answered: the backend
\* answers within the 1 s poll interval.
AnsweredPollTick(s) ==
    /\ s \in 1..Len(scans)
    /\ scans[s].inflight = 0
    /\ PollTick(s)

NextMix ==
    \/ MixBudget /\ ClickScan
    \/ \E s \in 1..MaxMixOps, ok \in BOOLEAN : TriggerScanRespond(s, ok)
    \/ \E s \in 1..MaxMixOps : AnsweredPollTick(s)
    \/ \E s \in 1..MaxMixOps, ok \in BOOLEAN : PollRespond(s, ok)
    \/ \E s \in 1..MaxMixOps : ScanTimeout(s)
    \/ \E found \in BOOLEAN : BackendScanFinish(found)
    \/ \E c \in 1..Len(autoCalls), enabled \in BOOLEAN : AutoStatusRespond(c, enabled)
    \/ MixBudget /\ handleToggleAutoScan
    \/ \E c \in 1..Len(autoCalls), ok \in BOOLEAN : AutoCallRespond(c, ok)
    \/ \E c \in 1..Len(autoCalls) : AutoInitialRefresh(c)
    \/ \E e \in 1..Len(autoEffects) : MixBudget /\ AutoPollTick(e)
    \/ \E q \in 1..Len(autoPolls), ok \in BOOLEAN : AutoPollDevicesRespond(q, ok)
    \/ \E q \in 1..Len(autoPolls), ok \in BOOLEAN : AutoPollLogsRespond(q, ok)
    \/ \E c \in BagToSet(loads), okD \in BOOLEAN, okL \in BOOLEAN : LoadRespond(c, okD, okL)

SpecMix == Init /\ [][NextMix]_vars

-----------------------------------------------------------------------------
(* Full refreshes whose two fetches resolve one by one: the mount refresh  *)
(* and the refreshes of a scan                                             *)

NextRefresh ==
    \/ UserScans(MaxRefreshScans)
    \/ \E s \in 1..MaxRefreshScans, ok \in BOOLEAN : TriggerScanRespond(s, ok)
    \/ \E s \in 1..MaxRefreshScans : AnsweredPollTick(s)
    \/ \E s \in 1..MaxRefreshScans, ok \in BOOLEAN : PollRespond(s, ok)
    \/ \E s \in 1..MaxRefreshScans : ScanTimeout(s)
    \/ \E found \in BOOLEAN : BackendScanFinish(found)
    \/ \E c \in BagToSet(loads), ok \in BOOLEAN : LoadDevicesRespond(c, ok)
    \/ \E c \in BagToSet(loads), ok \in BOOLEAN : LoadLogsRespond(c, ok)

SpecRefresh == Init /\ [][NextRefresh]_vars

-----------------------------------------------------------------------------
(* Display names: isMeaningful and displayNameFor (App.jsx:118-131)        *)

\* A JavaScript value of a device field: a string is the sequence of its
\* characters; undefined is a field the backend did not send; a number is
\* written with its digits.
Str(cs) == [type |-> "string", chars |-> cs]

Undefined == [type |-> "undefined", chars |-> << >>]

Num(cs) == [type |-> "number", chars |-> cs]

\* Characters \s and \d match
Whitespace == {" "}

Digits == {"0", "1", "2", "3", "4", "5", "6", "7", "8", "9"}

\* !val is false: a non-empty string, a number other than 0
Truthy(val) ==
    CASE val.type = "string" -> val.chars # << >>
      [] val.type = "number" -> val.chars # <<"0">>
      [] OTHER -> FALSE

RECURSIVE trimStart(_)
trimStart(cs) ==
    IF cs # << >> /\ Head(cs) \in Whitespace THEN trimStart(Tail(cs)) ELSE cs

RECURSIVE trimEnd(_)
trimEnd(cs) ==
    IF cs # << >> /\ cs[Len(cs)] \in Whitespace
    THEN trimEnd(SubSeq(cs, 1, Len(cs) - 1))
    ELSE cs

\* String.prototype.trim
trim(cs) == trimEnd(trimStart(cs))

\* /^\d+$/.test(cs)
OnlyDigits(cs) == cs # << >> /\ \A i \in 1..Len(cs) : cs[i] \in Digits

\* Mutant of isMeaningful: the value is not trimmed.
isMeaningfulUntrimmed(val) ==
    IF ~Truthy(val) \/ val.type # "string" THEN FALSE
    ELSE IF Len(val.chars) <= 1 THEN FALSE
    ELSE IF OnlyDigits(val.chars) THEN FALSE
    ELSE TRUE

isMeaningful(val) ==
    IF ~Truthy(val) \/ val.type # "string" THEN FALSE
    ELSE LET trimmed == trim(val.chars)
         IN  IF Len(trimmed) <= 1 THEN FALSE
             ELSE IF OnlyDigits(trimmed) THEN FALSE
             ELSE TRUE

displayNameFor(device) ==
    IF isMeaningful(device.nickname) THEN device.nickname
    ELSE IF isMeaningful(device.hostname) THEN device.hostname
    ELSE IF isMeaningful(device.vendor) THEN device.vendor
    ELSE device.ip

-----------------------------------------------------------------------------
(* Report Generator: generateQCReport (App.jsx:249-278)                    *)

\* A device as generateQCReport and displayNameFor read it.
ReportDevice(m, b, sb, r, nick, host, vend) ==
    [mac |-> m, isBlocked |-> b, is_blocked |-> sb, risk_score |-> r,
     nickname |-> nick, hostname |-> host, vendor |-> vend,
     name |-> Str(<<"p", "c">>), ip |-> Str(<<"1", "0", ".", "5">>)]

\* new Date().toLocaleString() at two moments
Timestamps == {"10:00:00", "10:00:01"}

\* devices.filter(d => d.isBlocked || d.is_blocked).length
blockedCount(ds) == Len(SelectSeq(ds, LAMBDA d : d.isBlocked \/ d.is_blocked))

\* Mutant of highRiskCount: a score of 50 counts as critical.
highRiskCountInclusive(ds) == Len(SelectSeq(ds, LAMBDA d : d.risk_score >= 50))

\* devices.filter(d => d.risk_score > 50).length
highRiskCount(ds) == Len(SelectSeq(ds, LAMBDA d : d.risk_score > 50))

\* Mutant of statusLabel: the risk score is looked at first.
statusLabelRiskFirst(d) ==
    IF d.risk_score > 20 THEN "VULNERABLE"
    ELSE IF d.isBlocked \/ d.is_blocked THEN "BLOCKED" ELSE "SECURE"

\* the STATUS field of a row
statusLabel(d) ==
    IF d.isBlocked \/ d.is_blocked THEN "BLOCKED"
    ELSE IF d.risk_score > 20 THEN "VULNERABLE" ELSE "SECURE"

\* the DEVICE NAME field of a row: d.vendor || d.name
rowName(d) == IF Truthy(d.vendor) THEN d.vendor ELSE d.name

\* d.f: a property the object does not have reads as undefined
Field(d, f) == IF f \in DOMAIN d THEN d[f] ELSE Undefined

\* val || dflt
orDefault(val, dflt) == IF Truthy(val) THEN val ELSE dflt

\* `${n}` of a non-negative integer: its decimal digits
RECURSIVE IntText(_)
IntText(n) ==
    LET digit(k) == <<"0", "1", "2", "3", "4", "5", "6", "7", "8", "9">>[k + 1]
    IN  IF n < 10 THEN <<digit(n)>> ELSE IntText(n \div 10) \o <<digit(n % 10)>>

\* `${val}` in a template literal: the characters of a string, the digits of
\* a number, the word undefined
toText(val) ==
    IF val.type = "undefined"
    THEN <<"u", "n", "d", "e", "f", "i", "n", "e", "d">>
    ELSE val.chars

\* const latency = d.latency ? `${d.latency}ms` : "N/A"
latencyField(d) ==
    IF Truthy(Field(d, "latency"))
    THEN toText(Field(d, "latency")) \o <<"m", "s">>
    ELSE <<"N", "/", "A">>

\* The nine fields of a row as texts, in the order of the template literal
\* (App.jsx:268).  A text is a sequence of characters; the mac and the
\* status label are kept in one piece each.
rowFields(d) ==
    << toText(rowName(d)),
       toText(d.ip),
       <<d.mac>>,
       toText(orDefault(Field(d, "os_type"), Str(<<"U", "n", "k", "n", "o", "w", "n">>))),
       toText(orDefault(Field(d, "device_type"), Str(<<"u", "n", "k", "n", "o", "w", "n">>))),
       IntText(d.risk_score) \o <<"%">>,
       toText(orDefault(Field(d, "open_ports"), Num(<<"0">>))),
       latencyField(d),
       <<statusLabel(d)>> >>

\* The texts written one after the other with a comma between them
RECURSIVE joinFields(_)
joinFields(fs) ==
    IF Len(fs) = 0 THEN << >>
    ELSE IF Len(fs) = 1 THEN fs[1]
    ELSE fs[1] \o <<",">> \o joinFields(Tail(fs))

\* The header row of the device table (App.jsx:263)
headerLine ==
    joinFields(<< <<"DEVICE NAME">>, <<"IP ADDRESS">>, <<"MAC ADDRESS">>, <<"OS">>,
                  <<"TYPE">>, <<"RISK SCORE">>, <<"OPEN PORTS">>, <<"LATENCY">>,
                  <<"STATUS">> >>)

\* One row of the CSV: the fields the summary and the claims are about, and
\* the line as it is written.
reportRow(d) ==
    [name |-> rowName(d), ip |-> d.ip, mac |-> d.mac,
     risk |-> d.risk_score, status |-> statusLabel(d),
     latency |-> latencyField(d), line |-> joinFields(rowFields(d))]

\* Mutant of csvContent: every row carries the time it was written at.
csvContentStampedRows(ds, timestamp) ==
    [generatedAt |-> timestamp,
     total |-> Len(ds),
     blocked |-> blockedCount(ds),
     highRisk |-> highRiskCount(ds),
     rows |-> [i \in 1..Len(ds) |-> [row |-> reportRow(ds[i]), at |-> timestamp]]]

\* The CSV text: the header block and one row per device, in store order.
csvContent(ds, timestamp) ==
    [generatedAt |-> timestamp,
     total |-> Len(ds),
     blocked |-> blockedCount(ds),
     highRisk |-> highRiskCount(ds),
     rows |-> [i \in 1..Len(ds) |-> reportRow(ds[i])]]

\* generateQCReport at time `timestamp`: the CSV is built from `devices` and
\* offered for download (link.click()); input: the list it was built from.
generateQCReport(timestamp) ==
    /\ reports' = Append(reports, [input |-> devices, csv |-> csvContent(devices, timestamp)])
    /\ UNCHANGED <<devices, logs, loading, scans, loads, uiVars,
                   srvDevices, srvLogs, srvScanning, outcomeObs,
                   nickVars, bulkVars, autoVars, srvAutoVars>>

\* Risk scores on both sides of the two thresholds
RiskScores == {20, 21, 50, 51}

InventoryOf(k, choice) ==
    [i \in 1..k |->
        ReportDevice(Macs[i], choice[i][1], choice[i][2], choice[i][3],
                     Undefined, Undefined, Str(<<"h", "p">>))]

\* Inventories of up to MaxReportDevices devices, each with any blocked
\* flags and any of the risk scores.
RiskInventories ==
    UNION {{InventoryOf(k, choice) :
               choice \in [1..k -> BOOLEAN \X BOOLEAN \X RiskScores]} :
           k \in 0..MaxReportDevices}

NameChars == {" ", "7", "a"}

\* undefined, a number, and every string of up to MaxNameLen characters
NameValues ==
    {Undefined, Num(<<"4", "2">>)}
       \cup {Str(cs) : cs \in UNION {[1..k -> NameChars] : k \in 0..MaxNameLen}}

\* Inventories of one device with any nickname, hostname and vendor.
NameInventories ==
    {<<ReportDevice(Macs[1], FALSE, FALSE, 20, nick, host, vend)>> :
        nick \in NameValues, host \in NameValues, vend \in NameValues}

InitReport == (\E inv \in RiskInventories : MountedWith(inv)) /\ outcomeObs = History(FALSE)

NextReport ==
    \/ \E c \in BagToSet(loads), okD \in BOOLEAN, okL \in BOOLEAN : LoadRespond(c, okD, okL)
    \/ \E t \in Timestamps : Len(reports) < MaxReports /\ generateQCReport(t)

SpecReport == InitReport /\ [][NextReport]_vars

InitDisplayName ==
    (\E inv \in NameInventories : MountedWith(inv)) /\ outcomeObs = History(FALSE)

\* The mount refresh, and one report.
NextDisplayName ==
    \/ \E c \in BagToSet(loads), okD \in BOOLEAN, okL \in BOOLEAN : LoadRespond(c, okD, okL)
    \/ \E t \in Timestamps : reports = << >> /\ generateQCReport(t)

SpecDisplayName == InitDisplayName /\ [][NextDisplayName]_vars

\* The device with one more field
WithField(d, f, val) == [x \in DOMAIN d \cup {f} |-> IF x = f THEN val ELSE d[x]]

\* Latencies in milliseconds: zero, one digit, two digits
LatencyValues == {Num(<<"0">>), Num(<<"7">>), Num(<<"1", "2">>)}

SeparatorChars == {",", "a"}

\* undefined, and every string of up to MaxNameLen characters
VendorValues ==
    {Undefined} \cup {Str(cs) : cs \in UNION {[1..k -> SeparatorChars] : k \in 0..MaxNameLen}}

\* Inventories of one device with any vendor, without a latency or with any
\* of the latencies.
RowInventories ==
    LET plain(vend) == ReportDevice(Macs[1], FALSE, FALSE, 20, Undefined, Undefined, vend)
    IN  {<<plain(vend)>> : vend \in VendorValues}
           \cup {<<WithField(plain(vend), "latency", lat)>> :
                     vend \in VendorValues, lat \in LatencyValues}

InitReportRow ==
    (\E inv \in RowInventories : MountedWith(inv)) /\ outcomeObs = History(FALSE)

SpecReportRow == InitReportRow /\ [][NextReport]_vars

-----------------------------------------------------------------------------
(* Claims about the scan controller *)

Started(s) == s <= Len(scans)

\* A session that has issued begin-scan and has not reached its terminal
\* outcome: triggerScan pending, or pollInterval live.
Active(s) == Started(s) /\ scans[s].pc \in {"requesting", "polling"}

ActiveScans == {s \in 1..Len(scans) : Active(s)}

\* Every call and loadData of scan s has resolved and its timeout has fired.
Settled(s) ==
    /\ Started(s)
    /\ scans[s].pc = "cleared"
    /\ scans[s].timeout = "fired"
    /\ scans[s].inflight = 0
    /\ \A c \in BagToSet(loads) : c.owner # s

\* C1: in every reachable state at most one scan session is active.
C1_AtMostOneActiveScan == Cardinality(ActiveScans) <= 1

\* C2: while a session is Requesting or Polling no step starts a scan: no
\* begin-scan request is sent and no new closure (poll timer, timeout) is
\* created.
C2_StartWhileActiveIsNoOp == [][ActiveScans # {} => Len(scans') = Len(scans)]_vars

\* C3: a session that ended by timeout has, once all its calls have
\* resolved, made exactly one inventory+log refresh.
C3_TimedOutScanRefreshesOnce ==
    \A s \in 1..Len(scans) :
        (scans[s].endedBy = "timeout" /\ Settled(s)) => scans[s].refreshes = 1

\* C4: a session that ended by normal completion makes exactly one
\* inventory+log refresh; no later timer of it refreshes again.
C4_CompletedScanRefreshesOnce ==
    \A s \in 1..Len(scans) :
        scans[s].endedBy = "completed" => scans[s].refreshes = 1

\* C5: every scan session that is started eventually has its poll timer
\* cancelled (completion or timeout) with loading false again, given that
\* backend calls are answered and timers fire.
C5_ScanReturnsToIdle ==
    \A s \in 1..MaxFairScans :
        Started(s) ~> (Started(s) /\ scans[s].pc = "cleared" /\ ~loading)

\* C5 witness: a session that ended by timeout is over and the controller is
\* idle.
C5_Witness ==
    \E s \in 1..Len(scans) : Settled(s) /\ ~loading /\ scans[s].endedBy = "timeout"

\* C6: what the caller can observe when a session ends by timeout differs
\* from what it can observe when a session ends by clean completion.
C6_TimeoutDistinguishable ==
    (outcomeObs.completed.seen /\ outcomeObs.timeout.seen)
        => outcomeObs.completed # outcomeObs.timeout

\* C7: while a session is Requesting or Polling, no loadData call of the
\* scan controller writes the stores.
ScanControllerWrites ==
    \E c \in BagToSet(loads) :
        /\ c.owner > 0
        /\ CopiesIn(c, loads') < CopiesIn(c, loads)

C7_NoStoreWriteWhileActive == [][ScanControllerWrites => ActiveScans = {}]_vars

-----------------------------------------------------------------------------
(* Claims about the block toggle *)

\* Toggle requests for mac m that have not been answered.
InFlight(m) == {t \in 1..Len(toggles) : toggles[t].mac = m /\ toggles[t].pc = "toggle"}

\* handleToggleBlock calls for mac m that have not returned.
Running(m) == {t \in 1..Len(toggles) : toggles[t].mac = m /\ toggles[t].pc # "done"}

RealMacs == {Macs[i] : i \in 1..Len(Macs)}

\* C8: at most one toggle request per mac is in flight at any time.
C8_OneToggleInFlightPerMac == \A m \in RealMacs : Cardinality(InFlight(m)) <= 1

\* C9: a step that sends a toggle request leaves the Inventory Store as it
\* is; the step that handles its response leaves it as it is unless the
\* response is a success, and then the toggled device, and only it, has
\* exactly the isBlocked value the server returned (the server's own value).
C9_ConfirmThenApply ==
    [][ /\ Len(toggles') > Len(toggles) => devices' = devices
        /\ \A t \in 1..Len(toggles) :
             (toggles[t].pc = "toggle" /\ toggles'[t].pc # "toggle") =>
                IF toggles'[t].ok
                THEN /\ Len(devices') = Len(devices)
                     /\ toggles'[t].isBlocked = SrvBlocked(toggles[t].mac)'
                     /\ \A i \in 1..Len(devices) :
                          IF devices[i].mac = toggles[t].mac
                          THEN devices'[i] = Device(devices[i].mac, toggles'[t].isBlocked)
                          ELSE devices'[i] = devices[i]
                ELSE devices' = devices
      ]_vars

\* C9 witness: a success response has been applied and the store holds the
\* returned value, which differs from the value before the toggle.
C9_Witness ==
    \E t \in 1..Len(toggles), i \in 1..Len(devices) :
        /\ toggles[t].ok
        /\ toggles[t].isBlocked
        /\ devices[i].mac = toggles[t].mac
        /\ devices[i].isBlocked

\* C10: the lock is held for a mac only while a handleToggleBlock call for
\* that mac is still running: once the call has returned, after a success or
\* after a failure, processingId is not that mac, so its Block button is
\* enabled again.
C10_LockReleasedWhenResolved ==
    \A m \in RealMacs : processingId = m => Running(m) # {}

\* C10 witness: a toggle of a mac failed, the lock is free, and a later
\* toggle of the same mac was accepted.
C10_Witness ==
    \E t1, t2 \in 1..Len(toggles) :
        /\ t1 < t2
        /\ toggles[t1].mac = toggles[t2].mac
        /\ toggles[t1].pc = "done"
        /\ ~toggles[t1].ok
        /\ toggles[t2].pc = "done"
        /\ toggles[t2].ok
        /\ processingId = NoMac

\* C11: the step that handles a toggle response issues a fetch-logs call
\* exactly when the response is a success, and leaves the Log Store alone;
\* the step that handles the answer of that fetch replaces the Log Store by
\* the fetched log; and every successful toggle gets there.
C11_SuccessfulToggleRefreshesLogs ==
    /\ [][\A t \in 1..Len(toggles) :
            /\ (toggles[t].pc = "toggle" /\ toggles'[t].pc # "toggle") =>
                  /\ toggles'[t].pc = (IF toggles'[t].ok THEN "logs" ELSE "done")
                  /\ logs' = logs
            /\ (toggles[t].pc = "logs" /\ toggles'[t].pc # "logs") =>
                  logs' \in {srvLogs, << >>}
         ]_vars
    /\ \A t \in 1..MaxToggles :
          (t <= Len(toggles) /\ toggles[t].ok) ~>
              (t <= Len(toggles) /\ toggles[t].pc = "done")

\* C11 witness: a successful toggle is over and the Log Store holds the log
\* entry the backend wrote for it.
C11_Witness ==
    \E t \in 1..Len(toggles) :
        /\ toggles[t].ok
        /\ toggles[t].pc = "done"
        /\ logs = srvLogs
        /\ logs # << >>

-----------------------------------------------------------------------------
(* Claims about the nickname update *)

\* C12: the step that handles the response of a nickname update for mac m
\* leaves the Inventory Store as it is unless the response is a success, and
\* then every device with mac m has the nickname that was sent and its other
\* fields as before, and every other device is as before.
C12_NicknamePatchOnlyNickname ==
    [][\A r \in 1..Len(renames) :
          (renames[r].pc = "await" /\ renames'[r].pc = "done") =>
             IF renames'[r].ok
             THEN /\ Len(devices') = Len(devices)
                  /\ \A i \in 1..Len(devices) :
                       IF devices[i].mac = renames[r].mac
                       THEN /\ devices'[i].nickname = renames[r].nickname
                            /\ devices'[i].mac = devices[i].mac
                            /\ devices'[i].isBlocked = devices[i].isBlocked
                            /\ DOMAIN devices'[i] = DOMAIN devices[i]
                       ELSE devices'[i] = devices[i]
             ELSE devices' = devices
      ]_vars

\* C12 witness: a device was renamed, then its nickname was cleared with the
\* empty string by a second successful update, while the input holds another
\* text.
C12_Witness ==
    \E r1, r2 \in 1..Len(renames), i \in 1..Len(devices) :
        /\ r1 < r2
        /\ renames[r1].mac = renames[r2].mac
        /\ renames[r1].ok /\ renames[r1].nickname # ""
        /\ renames[r2].ok /\ renames[r2].nickname = ""
        /\ devices[i].mac = renames[r2].mac
        /\ devices[i].nickname = ""
        /\ nicknameDraft # ""

\* C13: when the success response of a toggle or of a nickname update is
\* applied and the Inventory Store holds no device with its mac, the store
\* stays as it is: nothing is changed and no entry is created.
C13_PatchUnknownMacIsNoOp ==
    [][ /\ \A t \in 1..Len(toggles) :
             ( /\ toggles[t].pc = "toggle"
               /\ toggles'[t].ok
               /\ toggles[t].mac \notin MacsOf(devices) ) => devices' = devices
        /\ \A r \in 1..Len(renames) :
             ( /\ renames[r].pc = "await"
               /\ renames'[r].ok
               /\ renames[r].mac \notin MacsOf(devices) ) => devices' = devices
      ]_vars

\* C13 witness: a toggle and a nickname update both succeeded at a time the
\* store did not hold their mac.
C13_Witness ==
    /\ \E t \in 1..Len(toggles) : toggles[t].ok /\ ~toggles[t].hit
    /\ \E r \in 1..Len(renames) : renames[r].ok /\ ~renames[r].hit

\* C14: in every reachable state the Inventory Store holds at most one
\* device per mac.
C14_OneDevicePerMac ==
    \A i, j \in 1..Len(devices) : devices[i].mac = devices[j].mac => i = j

\* C14 witness: a toggle patch and a nickname patch have been applied to
\* devices in the store, a refresh of the scheduler and a poll tick are
\* over, and the store holds several devices.
C14_Witness ==
    /\ \E t \in 1..Len(toggles) : toggles[t].ok /\ toggles[t].hit
    /\ \E r \in 1..Len(renames) : renames[r].ok /\ renames[r].hit
    /\ \E q \in 1..Len(autoPolls) :
          /\ autoPolls[q].pc = "done"
          /\ autoPolls[q].cur = devices
          /\ autoEffects[autoPolls[q].eff].devs # devices
    /\ \E c \in 1..Len(autoCalls) : autoCalls[c].ok /\ autoCalls[c].pc = "done"
    /\ loads = EmptyBag
    /\ Len(devices) > 1

\* C15: the step in which a loadData call applies its snapshot leaves in
\* the Inventory Store exactly the fetched devices and in the Log Store
\* exactly the fetched log (the empty list when the fetch failed): nothing
\* of the earlier content stays.
C15_RefreshReplacesStore ==
    [][\A c \in BagToSet(loads) :
          CopiesIn(c, loads') < CopiesIn(c, loads) =>
             /\ devices' \in {srvDevices, << >>}
             /\ logs' \in {srvLogs, << >>}
      ]_vars

\* C15 witness: a scan has made two refreshes; the backend holds three
\* devices, and after the last refresh, whose device fetch failed, the
\* Inventory Store is empty and the Log Store holds the backend's log.
C15_Witness ==
    /\ loads = EmptyBag
    /\ \E s \in 1..Len(scans) : scans[s].refreshes = 2
    /\ Len(srvDevices) = 3
    /\ devices = << >>
    /\ logs = srvLogs
    /\ logs # << >>

-----------------------------------------------------------------------------
(* Claims about panic lock and panic unlock *)

\* Bulk requests (panic lock or unlock) that have not been answered.
BulkInFlight == {b \in 1..Len(bulks) : bulks[b].pc = "await"}

\* C16: at most one bulk request, panic lock or panic unlock, is in flight
\* at any time.
C16_OneBulkActionInFlight == Cardinality(BulkInFlight) <= 1

\* C17: no step of handlePanic or handleUnlockPanic writes the Inventory
\* Store; the Log Store is written only by the step that receives the log
\* fetched after a success, and a non-success response leaves both stores
\* as they are.
C17_BulkNeverWritesInventory ==
    [][bulks' # bulks =>
          /\ devices' = devices
          /\ \A b \in 1..Len(bulks) :
                bulks'[b] # bulks[b] =>
                   IF bulks[b].pc = "logs"
                   THEN bulks[b].ok /\ logs' \in {srvLogs, << >>}
                   ELSE logs' = logs
          /\ Len(bulks') > Len(bulks) => logs' = logs
      ]_vars

\* C17 witness: a panic lock succeeded and its log refresh is in, the
\* backend holds every device blocked, and the store still shows a device
\* unblocked.
C17_Witness ==
    /\ \E b \in 1..Len(bulks) :
          bulks[b].kind = "panic" /\ bulks[b].ok /\ bulks[b].pc = "done"
    /\ logs = srvLogs
    /\ logs # << >>
    /\ \A i \in 1..Len(srvDevices) : srvDevices[i].isBlocked
    /\ \E i \in 1..Len(devices) : ~devices[i].isBlocked

-----------------------------------------------------------------------------
(* Claims about the auto-scan scheduler *)

\* The auto-scan poll timers that have not been cleared.
LiveTimers == {e \in 1..Len(autoEffects) : autoEffects[e].live}

\* C18: an auto-scan poll timer is live exactly while autoScanEnabled is
\* true and the component is mounted (and then there is one), and a tick
\* fires only then.
C18_TimerLiveIffEnabled ==
    /\ [](Cardinality(LiveTimers) = (IF autoScanEnabled /\ mounted THEN 1 ELSE 0))
    /\ [][Len(autoPolls') > Len(autoPolls) => (autoScanEnabled /\ mounted)]_vars

\* C18 witness: a poll timer has ticked and has then been cleared by a
\* stop; auto-scan is off and no timer is live.
C18_Witness ==
    /\ mounted
    /\ ~autoScanEnabled
    /\ LiveTimers = {}
    /\ \E q \in 1..Len(autoPolls) : ~autoEffects[autoPolls[q].eff].live
    /\ \E c \in 1..Len(autoCalls) : autoCalls[c].kind = "stop" /\ autoCalls[c].ok

\* C19: when a tick's last fetch resolves after the tick's timer has been
\* cleared, the step changes neither the Inventory Store nor the Log Store.
C19_LateAutoPollDiscarded ==
    [][\A q \in 1..Len(autoPolls) :
          ( /\ autoPolls[q].pc = "logs"
            /\ autoPolls'[q].pc = "done"
            /\ ~autoEffects[autoPolls[q].eff].live ) =>
                (devices' = devices /\ logs' = logs)
      ]_vars

\* Auto-scan has been stopped: a stop succeeded and autoScanEnabled is false.
Stopped ==
    /\ mounted
    /\ ~autoScanEnabled
    /\ \E c \in 1..Len(autoCalls) : autoCalls[c].kind = "stop" /\ autoCalls[c].ok

\* A step in which no stop call is answered (the refresh a stop makes
\* itself belongs to the stop).
NoStopAnswered ==
    \A c \in 1..Len(autoCalls) : autoCalls[c].kind = "stop" => autoCalls'[c] = autoCalls[c]

\* C20: while auto-scan is stopped no timer of the scheduler issues an
\* inventory or log fetch (no loadData call of the scheduler, no tick, no
\* fetchLogs of a tick), and no step of a tick changes the stores.
C20_NoFetchAfterStop ==
    [][(Stopped /\ NoStopAnswered) =>
          /\ CopiesIn(LoadCall(AutoOwner, "none"), loads')
                <= CopiesIn(LoadCall(AutoOwner, "none"), loads)
          /\ Len(autoPolls') = Len(autoPolls)
          /\ \A q \in 1..Len(autoPolls) :
                autoPolls'[q] # autoPolls[q] =>
                   /\ autoPolls'[q].pc # "logs"
                   /\ devices' = devices
                   /\ logs' = logs
      ]_vars

\* C21: when a tick of the auto-scan poll completes (its fetchLogs
\* resolves), the Inventory Store holds the inventory the tick fetched: it
\* was replaced if it differed from the fetched one, and it equalled the
\* fetched one otherwise, whoever wrote the store since polling began.
C21_PollComparesWithCurrentStore ==
    [][\A q \in 1..Len(autoPolls) :
          (autoPolls[q].pc = "logs" /\ autoPolls'[q].pc = "done") =>
              devices' = autoPolls[q].cur
      ]_vars

\* A scan has ended by seeing the backend idle and its terminal refresh has
\* resolved, a tick of the auto-scan poll has completed, and no refresh,
\* status poll or tick is in flight.
OverlapCompleted ==
    /\ \E s \in 1..Len(scans) : scans[s].endedBy = "completed"
    /\ \A s \in 1..Len(scans) : scans[s].pc = "cleared" /\ scans[s].inflight = 0
    /\ loads = EmptyBag
    /\ autoPolls # << >>
    /\ \A q \in 1..Len(autoPolls) : autoPolls[q].pc = "done"
    /\ ~srvScanning

\* C22: once a scan's terminal refresh and an auto-scan poll tick have both
\* completed, whatever the order of their requests and responses, both
\* stores hold the backend's latest snapshot.
C22_OverlapConverges ==
    OverlapCompleted => (devices = srvDevices /\ logs = srvLogs)

\* C23: a step of the auto-scan scheduler (an Auto-Scan click, the answer
\* to a start, stop or status call, the 2 s timer of a start, a poll tick
\* and its responses, a refresh the scheduler asked for) starts no scan and
\* leaves the scan session and `loading` as they are; a step of the scan
\* controller (a scan start, its acknowledgement, a status poll, the
\* timeout, its terminal refresh) issues no start or stop of auto-scan and
\* leaves autoScanEnabled and the poll timers as they are.
C23_AutoScanAndScanDecoupled ==
    [][/\ ( \/ autoCalls' # autoCalls
            \/ autoPolls' # autoPolls
            \/ CopiesIn(LoadCall(AutoOwner, "none"), loads')
                  # CopiesIn(LoadCall(AutoOwner, "none"), loads) ) =>
              /\ scans' = scans
              /\ loading' = loading
              /\ srvScanning' = srvScanning
       /\ ( \/ scans' # scans
            \/ loading' # loading
            \/ \E c \in BagToSet(loads) :
                  c.owner > 0 /\ CopiesIn(c, loads') # CopiesIn(c, loads) ) =>
              /\ autoCalls' = autoCalls
              /\ autoScanEnabled' = autoScanEnabled
              /\ autoEffects' = autoEffects
              /\ autoPolls' = autoPolls
      ]_vars

\* C23 witness: auto-scan was started with success while a scan was
\* active; the scan has since ended with its terminal refresh, loading is
\* false again, and auto-scan is still enabled with its one timer live.
C23_Witness ==
    /\ \E c \in 1..Len(autoCalls) : autoCalls[c].kind = "start" /\ autoCalls[c].ok
    /\ autoScanEnabled
    /\ Cardinality(LiveTimers) = 1
    /\ \E s \in 1..Len(scans) : scans[s].endedBy = "completed"
    /\ ~loading
    /\ loads = EmptyBag

\* Call c is a start or stop of auto-scan that is answered in this step.
AutoCallAnswered(c) ==
    /\ autoCalls[c].kind \in {"start", "stop"}
    /\ autoCalls[c].pc = "await"
    /\ autoCalls'[c].pc # "await"

\* C24: the step that answers a start or stop of auto-scan without success
\* (a non-success status, or a transport fault, which api.js turns into
\* one) leaves autoScanEnabled, the poll timers and their ticks, both
\* stores and the pending refreshes as they are; a successful answer sets
\* autoScanEnabled to true for a start and to false for a stop; and apart
\* from the status load of the mount effect, which mirrors the backend's
\* flag, no other step changes autoScanEnabled.
C24_FailedAutoScanCallChangesNothing ==
    [][/\ \A c \in 1..Len(autoCalls) :
             AutoCallAnswered(c) =>
                IF autoCalls'[c].ok
                THEN autoScanEnabled' = (autoCalls[c].kind = "start")
                ELSE /\ autoScanEnabled' = autoScanEnabled
                     /\ autoEffects' = autoEffects
                     /\ autoPolls' = autoPolls
                     /\ devices' = devices
                     /\ logs' = logs
                     /\ loads' = loads
       /\ autoScanEnabled' # autoScanEnabled =>
             \E c \in 1..Len(autoCalls) :
                \/ autoCalls[c].kind = "status" /\ autoCalls'[c] # autoCalls[c]
                \/ AutoCallAnswered(c) /\ autoCalls'[c].ok
      ]_vars

\* C24 witness: a stop was answered without success; auto-scan is still
\* enabled, its one timer is live and has ticked, and the Inventory Store
\* holds the devices of the last refresh.
C24_Witness ==
    /\ \E c \in 1..Len(autoCalls) :
          autoCalls[c].kind = "stop" /\ autoCalls[c].pc = "done" /\ ~autoCalls[c].ok
    /\ autoScanEnabled
    /\ Cardinality(LiveTimers) = 1
    /\ \E q \in 1..Len(autoPolls) : autoEffects[autoPolls[q].eff].live
    /\ devices = srvDevices
    /\ loads = EmptyBag

-----------------------------------------------------------------------------
(* Claims about failed fetches *)

\* C25: a refresh one of whose fetches failed at the transport level still
\* completes, and the step that completes it leaves the store of the failed
\* fetch empty: the Inventory Store when fetchDevices failed, the Log Store
\* when fetchLogs failed.
C25_FailedFetchLeavesStoreEmpty ==
    [][\A c \in BagToSet(loads) :
          CopiesIn(c, loads') < CopiesIn(c, loads) =>
             /\ (c.dv.done /\ ~c.dv.ok) => devices' = << >>
             /\ (c.lg.done /\ ~c.lg.ok) => logs' = << >>
      ]_vars

\* C25 witness: the backend holds three devices and a log entry, the store
\* held devices before, and the last refresh, whose fetchDevices failed,
\* has completed: the Inventory Store is empty, the Log Store holds the log.
C25_Witness ==
    /\ loads = EmptyBag
    /\ \E s \in 1..Len(scans) : scans[s].refreshes = 2 /\ scans[s].timeout = "fired"
    /\ Len(srvDevices) = 3
    /\ devices = << >>
    /\ logs = srvLogs
    /\ logs # << >>

-----------------------------------------------------------------------------
(* Claims about the report and the display name *)

\* The device is blocked: the flag, under either of the two names the code
\* reads it by.
IsBlocked(d) == d.isBlocked \/ d.is_blocked

\* C26: in every report, Total Devices is the number of devices of the list
\* it was generated from, Quarantined Devices the number of those that are
\* blocked, and Critical Threats the number of those whose risk score is
\* strictly greater than 50.
C26_SummaryCounts ==
    \A r \in 1..Len(reports) :
       LET ds == reports[r].input
           csv == reports[r].csv
       IN  /\ csv.total = Len(ds)
           /\ csv.blocked = Cardinality({i \in 1..Len(ds) : IsBlocked(ds[i])})
           /\ csv.highRisk = Cardinality({i \in 1..Len(ds) : ds[i].risk_score > 50})

\* C26 witness: a report over two devices, one of them blocked, one with a
\* risk score of 51 and one with a risk score of 50: it says 2 / 1 / 1.
C26_Witness ==
    \E r \in 1..Len(reports) :
       /\ reports[r].csv.total = 2
       /\ reports[r].csv.blocked = 1
       /\ reports[r].csv.highRisk = 1
       /\ \E i, j \in 1..Len(reports[r].input) :
             /\ reports[r].input[i].risk_score = 50
             /\ reports[r].input[j].risk_score = 51

\* C27: in every report, the status of a device's row is BLOCKED if the
\* device is blocked, whatever its risk score; VULNERABLE if it is not
\* blocked and its risk score is strictly greater than 20; SECURE otherwise.
C27_StatusLabel ==
    \A r \in 1..Len(reports) :
       \A i \in 1..Len(reports[r].input) :
          LET d == reports[r].input[i]
              status == reports[r].csv.rows[i].status
          IN  /\ IsBlocked(d) => status = "BLOCKED"
              /\ (~IsBlocked(d) /\ d.risk_score > 20) => status = "VULNERABLE"
              /\ (~IsBlocked(d) /\ d.risk_score <= 20) => status = "SECURE"

\* C27 witness: a report holds the row of a blocked device with a risk
\* score of 51, labelled BLOCKED, and the row of a device that is not
\* blocked with a risk score of 21, labelled VULNERABLE.
C27_Witness ==
    \E r \in 1..Len(reports) :
       \E i, j \in 1..Len(reports[r].input) :
          /\ IsBlocked(reports[r].input[i])
          /\ reports[r].input[i].risk_score = 51
          /\ reports[r].csv.rows[i].status = "BLOCKED"
          /\ ~IsBlocked(reports[r].input[j])
          /\ reports[r].input[j].risk_score = 21
          /\ reports[r].csv.rows[j].status = "VULNERABLE"

\* C28: in every report, the display-name field of a device's row is the
\* device's nickname if that is meaningful, else its hostname if that is
\* meaningful, else its vendor if that is meaningful, else its IP.
C28_ReportRowDisplayName ==
    \A r \in 1..Len(reports) :
       \A i \in 1..Len(reports[r].input) :
          reports[r].csv.rows[i].name = displayNameFor(reports[r].input[i])

\* The positions of val's characters that are not whitespace.
Inked(val) == {i \in 1..Len(val.chars) : val.chars[i] \notin Whitespace}

\* val is a string whose trimmed form (what lies between its first and its
\* last non-whitespace character) is longer than one character and is not
\* made of digits only.
Meaningful(val) ==
    /\ val.type = "string"
    /\ \E first, last \in Inked(val) :
          /\ \A i \in Inked(val) : first <= i /\ i <= last
          /\ last - first + 1 > 1
          /\ \E i \in first..last : val.chars[i] \notin Digits

\* C29: for every device of the store, displayNameFor gives the nickname
\* if it is meaningful, else the hostname if it is meaningful, else the
\* vendor if it is meaningful, and the IP if none of the three is.
C29_DisplayNameFor ==
    \A i \in 1..Len(devices) :
       LET d == devices[i]
           shown == displayNameFor(d)
       IN  /\ Meaningful(d.nickname) => shown = d.nickname
           /\ (~Meaningful(d.nickname) /\ Meaningful(d.hostname)) => shown = d.hostname
           /\ ( /\ ~Meaningful(d.nickname)
                /\ ~Meaningful(d.hostname)
                /\ Meaningful(d.vendor) ) => shown = d.vendor
           /\ ( /\ ~Meaningful(d.nickname)
                /\ ~Meaningful(d.hostname)
                /\ ~Meaningful(d.vendor) ) => shown = d.ip

\* C29 witness: the store holds a device whose nickname trims to a single
\* character, whose hostname is made of digits, and whose vendor is
\* meaningful: the vendor is its display name.
C29_Witness ==
    \E i \in 1..Len(devices) :
       /\ devices[i].nickname = Str(<<" ", "a">>)
       /\ devices[i].hostname = Str(<<"7", "7">>)
       /\ devices[i].vendor = Str(<<"a", "7">>)
       /\ displayNameFor(devices[i]) = devices[i].vendor

\* C30: two reports generated from identical device lists have identical
\* summary counts and identical rows in the same order (the generated-at
\* time apart), and the step that generates a report changes neither the
\* Inventory Store nor the Log Store.
C30_ReportDeterministicReadOnly ==
    /\ [](\A r1, r2 \in 1..Len(reports) :
             reports[r1].input = reports[r2].input =>
                /\ reports[r1].csv.total = reports[r2].csv.total
                /\ reports[r1].csv.blocked = reports[r2].csv.blocked
                /\ reports[r1].csv.highRisk = reports[r2].csv.highRisk
                /\ reports[r1].csv.rows = reports[r2].csv.rows)
    /\ [][reports' # reports => (devices' = devices /\ logs' = logs)]_vars

\* C30 witness: two reports were generated at different times from the
\* same list of two devices, which the store still holds.
C30_Witness ==
    \E r1, r2 \in 1..Len(reports) :
       /\ reports[r1].input = reports[r2].input
       /\ Len(reports[r1].input) = 2
       /\ reports[r1].csv.generatedAt # reports[r2].csv.generatedAt
       /\ devices = reports[r1].input

-----------------------------------------------------------------------------
(* Further claims about the scan controller *)

\* C32: within one scan session at most one get-scan-status query is
\* unresolved at any time, and no query is issued while a refresh the
\* session asked for is unresolved.
C32_PollTicksSequential ==
    /\ [](\A s \in 1..Len(scans) : scans[s].inflight <= 1)
    /\ [][\A s \in 1..Len(scans) :
             scans'[s].inflight > scans[s].inflight =>
                \A c \in BagToSet(loads) : c.owner # s
         ]_vars

\* C33: the step that ends a scan session as completed is the answer to a
\* status query the backend gave while it was not scanning.
C33_CompletionOnlyOnRemoteIdle ==
    [][\A s \in 1..Len(scans) :
          (scans[s].endedBy = "none" /\ scans'[s].endedBy = "completed") =>
              ~srvScanning
      ]_vars

\* C34: in the step in which loading becomes false, a refresh of a scan
\* session has been applied and no refresh a scan session asked for is
\* still unresolved.
C34_RefreshAppliedBeforeIdle ==
    [][(loading /\ ~loading') =>
          /\ \A c \in BagToSet(loads') : c.owner <= 0
          /\ \E c \in BagToSet(loads) :
                c.owner > 0 /\ CopiesIn(c, loads') < CopiesIn(c, loads)
      ]_vars

\* C35: while the poll timer of any scan session is live, loading is true;
\* so whenever loading is false (the Scan button is enabled) no scan poll
\* timer is live.
C35_NoLiveTimerWhenIdle ==
    \A s \in 1..Len(scans) : scans[s].pc = "polling" => loading

-----------------------------------------------------------------------------
(* Further claims about the auto-scan scheduler *)

\* C36: when a tick of the auto-scan poll completes with the log the
\* backend returned (every fetch succeeds here), the Log Store holds that
\* log: it was replaced if it differed, whether or not the fetched
\* inventory differed.
C36_PollRefreshesChangedLogs ==
    [][\A q \in 1..Len(autoPolls) :
          (autoPolls[q].pc = "logs" /\ autoPolls'[q].pc = "done") =>
              logs' = srvLogs
      ]_vars

-----------------------------------------------------------------------------
(* Further claims about panic lock and panic unlock *)

\* C37: the step in which a panic lock or unlock call returns, after a
\* success, a non-success status or a fault, leaves the flag of its kind
\* false; and a flag that is set is cleared again, given that backend calls
\* are answered.
C37_BulkGuardAlwaysCleared ==
    /\ [][\A b \in 1..Len(bulks) :
             (bulks[b].pc # "done" /\ bulks'[b].pc = "done") =>
                /\ bulks[b].kind = "panic" => ~panicProcessing'
                /\ bulks[b].kind = "unlock" => ~unlockProcessing'
         ]_vars
    /\ panicProcessing ~> ~panicProcessing
    /\ unlockProcessing ~> ~unlockProcessing

\* C37 witness: a panic lock was answered without success and has
\* returned, and a later panic lock was accepted.
C37_Witness ==
    \E b1, b2 \in 1..Len(bulks) :
       /\ b1 < b2
       /\ bulks[b1].kind = "panic"
       /\ bulks[b1].pc = "done"
       /\ ~bulks[b1].ok
       /\ bulks[b2].kind = "panic"

-----------------------------------------------------------------------------
(* The auto-scan flag next to the backend's scheduler: the backend serves  *)
(* each status, start and stop call at some moment between the request and *)
(* its answer.  Every call is answered without a fault.                    *)

\* The answer the backend gives to call c when it serves it: the flag for
\* a status call, success for a start or a stop.
AutoAnswer(c) ==
    [call |-> c,
     enabled |-> IF autoCalls[c].kind = "status" THEN srvAutoScan
                 ELSE autoCalls[c].kind = "start"]

AutoServed(c) == \E a \in autoAnswers : a.call = c

\* The backend serves call c: /api/auto-scan/status reads the flag,
\* /api/auto-scan/start sets it, /api/auto-scan/stop clears it.
SrvAutoServe(c) ==
    /\ mounted
    /\ c \in 1..Len(autoCalls)
    /\ autoCalls[c].pc = "await"
    /\ ~AutoServed(c)
    /\ autoAnswers' = autoAnswers \cup {AutoAnswer(c)}
    /\ srvAutoScan' = AutoAnswer(c).enabled
    /\ UNCHANGED <<devices, logs, loading, scans, loads, uiVars,
                   srvDevices, srvLogs, srvScanning, outcomeObs,
                   nickVars, bulkVars, autoVars, reportVars>>

\* The answer to the served status call c arrives.
ServedStatusRespond(c) ==
    \E a \in autoAnswers : a.call = c /\ AutoStatusRespond(c, a.enabled)

\* The answer to the served start or stop call c arrives: success.
ServedCallRespond(c) == AutoServed(c) /\ AutoCallRespond(c, TRUE)

\* loadData resolves with both fetches answered.
MirrorLoadRespond(c) == MountedLoadRespond(c, TRUE, TRUE)

NextMirror ==
    \/ \E c \in 1..(MaxAutoClicks + 1) : SrvAutoServe(c)
    \/ \E c \in 1..(MaxAutoClicks + 1) : ServedStatusRespond(c)
    \/ UserAutoClicks
    \/ \E c \in 1..(MaxAutoClicks + 1) : ServedCallRespond(c)
    \/ \E c \in 1..(MaxAutoClicks + 1) : AutoInitialRefresh(c)
    \/ \E c \in BagToSet(loads) : MirrorLoadRespond(c)

SpecMirror == Init /\ [][NextMirror]_vars

\* No status, start or stop call is awaiting its answer.
AutoCallsQuiet == \A c \in 1..Len(autoCalls) : autoCalls[c].pc # "await"

\* C38: whenever no status, start or stop call is in flight, the local
\* auto-scan flag equals the backend's flag.
C38_AutoScanFlagMirrorsBackend == AutoCallsQuiet => autoScanEnabled = srvAutoScan

-----------------------------------------------------------------------------
(* Further claims about the mutation coordinator *)

\* C39: the step that applies the success response of a toggle for mac m
\* takes the Inventory Store as it is at that moment: it keeps its length
\* and order, every device with another mac is as it was just before the
\* step, and a device with mac m keeps its mac and its nickname and takes
\* the isBlocked of the response.
C39_ToggleMergedIntoCurrentStore ==
    [][\A t \in 1..Len(toggles) :
          (toggles[t].pc = "toggle" /\ toggles'[t].ok) =>
             /\ Len(devices') = Len(devices)
             /\ \A i \in 1..Len(devices) :
                  IF devices[i].mac = toggles[t].mac
                  THEN /\ devices'[i].isBlocked = toggles'[t].isBlocked
                       /\ devices'[i].mac = devices[i].mac
                       /\ devices'[i].nickname = devices[i].nickname
                       /\ DOMAIN devices'[i] = DOMAIN devices[i]
                  ELSE devices'[i] = devices[i]
      ]_vars

\* C39 witness: the success response of a toggle has just been applied to a
\* store that a nickname update of the same device had patched; the device
\* holds that nickname next to the new block flag, and the store holds
\* another device as well.
C39_Witness ==
    \E t \in 1..Len(toggles), r \in 1..Len(renames), i, j \in 1..Len(devices) :
        /\ toggles[t].pc = "logs" /\ toggles[t].ok /\ toggles[t].hit
        /\ renames[r].ok /\ renames[r].hit /\ renames[r].nickname # ""
        /\ renames[r].mac = toggles[t].mac
        /\ devices[i].mac = toggles[t].mac
        /\ devices[i].nickname = renames[r].nickname
        /\ devices[i].isBlocked = toggles[t].isBlocked
        /\ devices[j].mac # toggles[t].mac
-----------------------------------------------------------------------------
(* Further claims about the report generator *)

\* The device has a latency value.
HasLatency(d) == Field(d, "latency").type = "number"

\* C40: in every report, the latency field of a row is N/A exactly when the
\* device has no latency value, and the row of a device with a latency,
\* 0 included, has the digits of the latency followed by ms.
C40_LatencyField ==
    \A k \in 1..Len(reports) : \A i \in 1..Len(reports[k].input) :
       LET d == reports[k].input[i]
           row == reports[k].csv.rows[i]
       IN  /\ (row.latency = <<"N", "/", "A">>) <=> ~HasLatency(d)
           /\ HasLatency(d) => row.latency = d.latency.chars \o <<"m", "s">>

\* String.prototype.split on the comma: the fields of a line
RECURSIVE splitLine(_)
splitLine(cs) ==
    IF \E i \in 1..Len(cs) : cs[i] = ","
    THEN LET i == CHOOSE i \in 1..Len(cs) :
                     cs[i] = "," /\ \A j \in 1..(i - 1) : cs[j] # ","
         IN  <<SubSeq(cs, 1, i - 1)>> \o splitLine(SubSeq(cs, i + 1, Len(cs)))
    ELSE <<cs>>

\* C31: in every report, every row splits on the comma into as many fields
\* as the header row.
C31_RowHasHeaderColumns ==
    \A k \in 1..Len(reports) : \A i \in 1..Len(reports[k].csv.rows) :
       Len(splitLine(reports[k].csv.rows[i].line)) = Len(splitLine(headerLine))

====
